---- MODULE Spec2Model ----
(***************************************************************************)
(* dirigera-moodz: the Device Actuation Layer.                             *)
(*                                                                         *)
(* DirigeraService (device registry, optimistic state, updateLights,       *)
(* updateLightsBatch, updateSingleLight) and its CommandQueue (add /       *)
(* process), from src/src/server/controllers/LightsController.ts.          *)
(*                                                                         *)
(* One action is one run of JavaScript between two awaits: a service call  *)
(* runs from its entry to the first await it reaches (which, when the      *)
(* queue is idle, includes the synchronous start of the drain loop and of  *)
(* the first queue item), a timer callback runs from the wake-up to the    *)
(* next await, and so on.                                                  *)
(*                                                                         *)
(* Optional fields (color?, brightness?, isOn?) are sets with at most one  *)
(* element: {} is undefined, {v} is the value v.  Saturation is in percent.*)
(* Time is in milliseconds; the pair (Date.now(), lastExecutionTime) is    *)
(* kept as their difference, capped at minInterval, which is all that      *)
(* process() reads of it.                                                  *)
(***************************************************************************)
EXTENDS Integers, Sequences, FiniteSets, TLC

(* ------------------------------ bounds --------------------------------- *)

\* Queue items the service calls may enqueue in one behaviour of Spec.
MaxAdds == 3

\* Queue items the service calls may enqueue in one behaviour of RegistrySpec.
MaxUpdates == 2

\* Queue items the requests and ticks may enqueue in one behaviour of
\* SceneSpec.
MaxSceneItems == 2

\* Queue items the requests and ticks may enqueue in one behaviour of
\* ControlSpec.
MaxRequestItems == 3

\* Queue items the pulses and their returns may enqueue in one behaviour of
\* PulseSpec.
MaxPulseItems == 4

\* Runs of initialize, authenticateWithButton and the liveness probe that may
\* be in flight at once in ConnectionSpec.
MaxConnects == 2

\* Frequency frames that may be accepted in one behaviour of FrameSpec.
MaxFrames == 2

\* DetectorSpec: the analysis frames, of which the first QuietFrames carry a
\* low energy.
MaxAnalysisFrames == 46
QuietFrames == 40

\* TestSpec: the queue items of the test runs and of the stop requests.
MaxTestItems == 3

\* ObserverSpec: the broadcasts a client has not received yet.
MaxMessages == 2

\* SectionSpec: the queue items of the section effects (the BUILD ramp has 21
\* steps).
MaxSectionItems == 21

\* OutboxSpec and ReconnectSpec: the messages that are handed to send.
MaxSends == 102
MaxReconnectSends == 2

\* LoadSpec: the eligible fixtures of the spatial scene, and the ticks of its
\* interval.
MaxFixtures == 11
MaxTicks == 3

(* --------------------------- program constants -------------------------- *)

\* new CommandQueue(10, logger)
commandsPerSecond == 10

\* this.minInterval = 1000 / commandsPerSecond
minInterval == 1000 \div commandsPerSecond

\* private readonly beatUpdateInterval: number = 800
beatUpdateInterval == 800

\* private readonly lightUpdateInterval: number = 3000
lightUpdateInterval == 3000

\* private readonly historySize = 5
historySize == 5

\* beatDetectionThreshold: 0.6, in percent
beatDetectionThreshold == 60

\* effectIntensity: 0.8, in percent
effectIntensity == 80

\* BeatDetector.historySize: ~1 second at 43fps
beatHistorySize == 43

\* BeatDetector.minBeatInterval: minimum ms between beats
minBeatInterval == 100

\* getDefaultSettings(), with the numbers in percent; smoothing and
\* colorTransitionSpeed, which no handler reads, are left out.
DefaultSettings ==
  [sensitivity |-> 70, colorMode |-> "frequency",
   effectIntensity |-> effectIntensity,
   beatDetectionThreshold |-> beatDetectionThreshold]

\* WebSocketClient: maxReconnectAttempts, reconnectDelay and
\* maxReconnectDelay, and the limit of the message queue.
maxReconnectAttempts == 5
reconnectDelay == 1000
maxReconnectDelay == 30000
maxQueueLength == 100

\* Granularity of the clock of Spec, and the length of the time window the
\* model remembers dispatch times for.
TickMs == minInterval \div 2
Horizon == 2 * minInterval

\* Granularity of the clock of FrameSpec.
FrameTickMs == lightUpdateInterval \div 2

\* Granularity of the clock of PulseSpec.
PulseTickMs == beatUpdateInterval \div 2

(* ------------------------------ values ---------------------------------- *)

Dev == {"d1", "d2"}

\* The order in which the hub lists the fixtures, which is the iteration
\* order of the devices Map (insertion order of discovery).
DevOrder == <<"d1", "d2">>

\* The ids a queue item can have under any of the bounds.
ItemIds == 1..(MaxAdds + MaxUpdates + MaxSceneItems + MaxRequestItems + MaxPulseItems + MaxTestItems
                + MaxSectionItems
                + (MaxFrames + 1) * Cardinality(Dev))

None == {}
Some(v) == {v}
Val(o) == CHOOSE v \in o : TRUE
Defined(o) == o # {}

Red == [hue |-> 0, saturation |-> 100]

\* Capabilities the hub may report for a fixture.
BrightnessOnly == [canChangeBrightness |-> TRUE, canChangeColor |-> FALSE]
ColorOnly == [canChangeBrightness |-> FALSE, canChangeColor |-> TRUE]
FullyCapable == [canChangeBrightness |-> TRUE, canChangeColor |-> TRUE]

\* What discovery may find: the capabilities the hub reports, and the
\* light levels it reports, and the persisted selection loadSelection has
\* read ({}: no file, a first run).
HubReports ==
  { [capabilities |-> [d \in Dev |-> IF d = "d1" THEN BrightnessOnly ELSE FullyCapable],
     lightLevel |-> [d \in Dev |-> 50], selection |-> Dev],
    [capabilities |-> [d \in Dev |-> IF d = "d1" THEN ColorOnly ELSE FullyCapable],
     lightLevel |-> [d \in Dev |-> 50], selection |-> Dev],
    [capabilities |-> [d \in Dev |-> IF d = "d1" THEN BrightnessOnly ELSE FullyCapable],
     lightLevel |-> [d \in Dev |-> 50], selection |-> {}] }

\* The report Spec runs on: a brightness-only and a fully capable fixture,
\* both participating.
QueueReports ==
  { [capabilities |-> [d \in Dev |-> IF d = "d1" THEN BrightnessOnly ELSE FullyCapable],
     lightLevel |-> [d \in Dev |-> 50], selection |-> Dev] }

\* The reports SelectionSpec runs on: no selection file, a file naming both
\* fixtures, and a file naming d1 and a fixture the hub does not list.
SelectionReports ==
  { [capabilities |-> [d \in Dev |-> FullyCapable],
     lightLevel |-> [d \in Dev |-> 50], selection |-> sel] :
    sel \in { {}, Dev, {"d1", "d3"} } }

\* The selectedLights of PUT /api/lights/selection.
SelectionRequests == SUBSET (Dev \cup {"d3"})

\* The report ConnectionSpec runs on, and what the hub may list when asked:
\* both fixtures, or d1 alone.
ConnectionReport ==
  [capabilities |-> [d \in Dev |-> FullyCapable],
   lightLevel |-> [d \in Dev |-> 50], selection |-> Dev]

ConnectionListings == { DevOrder, << "d1" >> }

\* The browsers that open the application.
Clients == {"c1", "c2"}

\* What the hub lists as powered on when a client asks for a discovery.
DiscoverListings == { Dev, {"d2"} }

\* config.accessToken, and the token file the service finds when it is
\* constructed.
ConfigTokens == { None, Some("configured") }
StoredTokens == { None, Some("stored") }

\* The reports PulseSpec runs on: both fixtures participate, at one light
\* level or at different light levels.
PulseReports ==
  { [capabilities |-> [d \in Dev |-> IF d = "d1" THEN BrightnessOnly ELSE FullyCapable],
     lightLevel |-> [d \in Dev |-> 50], selection |-> Dev],
    [capabilities |-> [d \in Dev |-> IF d = "d1" THEN BrightnessOnly ELSE FullyCapable],
     lightLevel |-> [d \in Dev |-> IF d = "d1" THEN 30 ELSE 70], selection |-> Dev] }

\* The reports FrameSpec runs on: two fully capable fixtures, of which both
\* participate or d2 alone.
FrameReports ==
  { [capabilities |-> [d \in Dev |-> FullyCapable],
     lightLevel |-> [d \in Dev |-> 50], selection |-> selection] :
    selection \in { Dev, {"d2"} } }

\* What client.lights.list() may answer to refreshDeviceStates: the fixtures
\* that are powered on, and their light levels; no colorHue is reported.
Listings ==
  { [on |-> on, lightLevel |-> [d \in Dev |-> 50]] : on \in {Dev, {"d2"}} }

\* The frequency frames the frontend sends: {bass, mids, treble}, in percent.
FrequencyFrames == { [bass |-> 100, mids |-> 50, treble |-> 0] }

\* Math.floor(Date.now() / 3000), as far as the color index depends on it.
TimeComponents == {0, 1}

LightUpdate(isOn, color, brightness) ==
  [deviceId |-> "all", isOn |-> isOn, color |-> color, brightness |-> brightness]

DeviceUpdate(deviceId, color, brightness) ==
  [deviceId |-> deviceId, isOn |-> None, color |-> color, brightness |-> brightness]

\* LightUpdate inputs of updateLights: {color?, brightness?, isOn?}.
LightUpdates ==
  { LightUpdate(None, Some(Red), Some(80)),
    LightUpdate(Some(FALSE), None, None),
    LightUpdate(Some(TRUE), None, None) }

\* Inputs of updateSingleLight: {deviceId, color, brightness}.
SingleUpdates == { DeviceUpdate("d2", Some(Red), Some(80)) }

\* The updateSingleLight inputs of RegistrySpec.
RegistrySingleUpdates == { DeviceUpdate(d, Some(Red), Some(80)) : d \in Dev }

\* Inputs of updateLightsBatch: a list of {deviceId, color?, brightness?}.
BatchUpdates ==
  { << DeviceUpdate("d1", Some(Red), Some(80)), DeviceUpdate("d2", Some(Red), None) >> }

\* The updateLights inputs of Spec.
QueueLightUpdates == { LightUpdate(None, None, Some(80)) }

SceneIds == {"savanna-sunset", "arctic-aurora"}

\* this.scenes after the constructor: SCENE_PRESETS with the overrides of
\* .dirigera_scenes.json merged in, here an override that gives arctic-aurora
\* spatial parameters.
ScenePresets ==
  [id \in SceneIds |->
     IF id = "savanna-sunset"
     THEN [type |-> "drift", spatial |-> FALSE, transitionSpeed |-> 8000, brightness |-> 60]
     ELSE [type |-> "drift", spatial |-> TRUE, transitionSpeed |-> 10000, brightness |-> 50]]

\* The bodies of PUT /api/scenes/:id: {transitionSpeed?, brightness?}.
SceneUpdates == { [transitionSpeed |-> Some(4000), brightness |-> Some(40)] }

(* ------------------------------ state ----------------------------------- *)

VARIABLES
  loadedSelection,     \* the selectedDeviceIds that loadSelection read from the file
  selectedDeviceIds,   \* DirigeraService.selectedDeviceIds
  selectionFile,       \* the ids in .dirigera_selection.json ({}: there is no file)
  config,              \* DirigeraService.config ({}: the service is not constructed yet)
  tokenFile,           \* the token in .dirigera_token ({}: there is no file)
  isConnected,         \* DirigeraService.isConnected
  healthCheckInterval, \* DirigeraService.healthCheckInterval
  healthTimers,        \* the handles of the health check intervals that are active
  connects,            \* the runs of initialize, authenticateWithButton and the probes
  lastToken,           \* the token the service has learned last
  lastProbe,           \* the liveness probe that failed last, and what it found and did
  client,              \* DirigeraService.client: "null" or "ready"
  devices,             \* DirigeraService.devices: id -> Device
  queue,               \* CommandQueue.queue: the waiting items, oldest first
  processing,          \* CommandQueue.processing
  sinceLastExecution,  \* min(Date.now() - lastExecutionTime, minInterval)
  loops,               \* the running invocations of CommandQueue.process()
  inflight,            \* hub calls dispatched and not yet settled
  settled,             \* queue item id -> state of the promise add() returned
  failed,              \* id of the queue item that last had a hub call rejected
  started,             \* ids of the queue items in the order they began executing
  lastExec,            \* the queue item that is executing, what it saw and its hub calls
  dispatches,          \* the item starts of the last Horizon ms: age, number of hub calls
  nextId,              \* id of the next queue item (ids count enqueue order)
  clock,               \* number of notifications and dispatches so far
  scenes,              \* SceneEngine.scenes: scene id -> Scene
  currentScene,        \* SceneEngine.currentScene: the id of the scene, if any
  isRunning,           \* SceneEngine.isRunning
  activeInterval,      \* SceneEngine.activeInterval: a timer handle, if any
  timers,              \* the intervals setInterval created and clearInterval has not cleared
  lastTick,            \* the last run of driftLoop / spatialLoop that got past its guard,
                       \* and the request that had been handled last when it ran
  request,             \* the API request handled last, and what its handler found and did
  isTestRunning,       \* LightsController.isTestRunning
  tests,               \* the runs of runRainbowTest that have not returned
  pulses,              \* the runs of executePulseCommand, with what they stored
  sinceLastBeatUpdate, \* Date.now() - SyncEngine.lastBeatUpdate, up to beatUpdateInterval
  sinceLastLightUpdate,\* Date.now() - SyncEngine.lastLightUpdate, up to lightUpdateInterval
  colorHistory,        \* AnalysisState.colorHistory
  frames,              \* the runs of createLightPattern of the accepted frames
  lastFrame,           \* the frame handled last, and what its handler found and did
  lastSelection,       \* the selection request handled last, and what its handler found
  syncSettings,        \* SyncEngine.syncSettings, with the numbers in percent
  lastSettings,        \* the settings update handled last, and what its handler found and did
  stores,              \* the devices of the light store of each client that has loaded them
  channel,             \* for each client, the broadcasts it has not received yet
  energyHistory,       \* BeatDetector.energyHistory
  sinceLastBeat,       \* the time since BeatDetector.lastBeatTime, up to 2 * minBeatInterval
  lastDetect,          \* the analysis frame detect() was called with last, and what it returned
  lastInterpolation,   \* the colors interpolateColors was called with last, and its result
  lastSpatial,         \* the fixtures getSpatialColor was asked for last, and their colors
  sections,            \* the runs of the section effects of the sync engine that have not returned
  ws,                  \* WebSocketClient.ws: "null", or "set" to the socket created last
  readyState,          \* the readyState of the socket created last ("NONE": none was created)
  closeCode,           \* the code the close event of that socket will carry, once it is closing
  wsConnected,         \* WebSocketClient.isConnected
  reconnectAttempts,   \* WebSocketClient.reconnectAttempts
  reconnectTimer,      \* the timer scheduleReconnect has set: its delay, and whether it is pending
  heartbeatTimer,      \* whether the heartbeat interval is set
  messageQueue,        \* WebSocketClient.messageQueue
  nextMessage,         \* the number of the next message that is handed to send
  scheduledSinceOpen,  \* the reconnect attempts scheduled since the socket was last open
  disconnectCalled,    \* whether disconnect() has been called
  lastStep,            \* the send or open the client handled in the last step, and what it did
  load                 \* a spatial scene over many fixtures: the number of eligible fixtures,
                       \* the length of the command queue, and the time since the last tick
                       \* and since the last execution

vars == << loadedSelection, selectedDeviceIds, selectionFile, config, tokenFile,
           isConnected, healthCheckInterval, healthTimers, connects, lastToken,
           lastProbe, client, devices, queue, processing, sinceLastExecution, loops,
           inflight, settled, failed, started, lastExec, dispatches,
           nextId, clock, scenes, currentScene, isRunning, activeInterval,
           timers, lastTick, request, isTestRunning, tests, pulses,
           sinceLastBeatUpdate, sinceLastLightUpdate, colorHistory, frames,
           lastFrame, lastSelection, syncSettings, lastSettings, load,
           stores, channel, energyHistory, sinceLastBeat, lastDetect,
           lastInterpolation, lastSpatial,
           sections,
           ws, readyState, closeCode, wsConnected, reconnectAttempts,
           reconnectTimer, heartbeatTimer, messageQueue, nextMessage,
           scheduledSinceOpen, disconnectCalled, lastStep >>

\* The selection of DirigeraService, in memory and on disk.
selectionVars == << loadedSelection, selectedDeviceIds, selectionFile >>

\* The connection of DirigeraService to the hub.
connectionVars == << config, tokenFile, isConnected, healthCheckInterval, healthTimers,
                     connects, lastToken, lastProbe >>

\* The state of the scene engine.
sceneVars == << scenes, currentScene, isRunning, activeInterval, timers, lastTick >>

\* The state of the sync engine.
frameVars == << sinceLastLightUpdate, colorHistory, frames, lastFrame >>
syncVars == << sinceLastBeatUpdate, frameVars >>

\* The settings of the sync engine.
settingsVars == << syncSettings, lastSettings >>

\* The state behind the administrative requests.
\* The clients of the WebSocket server.
observerVars == << stores, channel >>

\* The state outside DirigeraService, the scenes and the sync engine, but for
\* the clients.
\* The beat detector of the frontend.
detectorVars == << energyHistory, sinceLastBeat, lastDetect >>

\* What is observed of the color functions of the scene engine.
colorVars == << lastInterpolation, lastSpatial >>

\* The section effects of the sync engine.
sectionVars == << sections >>

\* The WebSocket client of the frontend.
socketVars == << ws, readyState, closeCode, wsConnected, reconnectAttempts,
                 reconnectTimer, heartbeatTimer, messageQueue, nextMessage,
                 scheduledSinceOpen, disconnectCalled, lastStep >>

\* The state of the parts that stand alone.
restVars == << sectionVars, socketVars >>

unobservedVars == << lastSelection, settingsVars, load, detectorVars, colorVars, restVars >>

adminVars == << unobservedVars, observerVars >>

\* The state outside DirigeraService and its queue.
outerVars == << sceneVars, request, isTestRunning, tests, pulses, syncVars, adminVars >>

(* ------------------- DirigeraService: pure parts ------------------------ *)

HubCall(name, id, isOn, color, lightLevel) ==
  [call |-> name, id |-> id, isOn |-> isOn, color |-> color, lightLevel |-> lightLevel]

\* Math.round(Math.max(1, Math.min(100, brightness)))
ClampBrightness(b) == IF b < 1 THEN 1 ELSE IF b > 100 THEN 100 ELSE b

\* updateLights without the skip of powered-off devices.
UpdateLightsApplies_IgnoresPower(device, update) == device.isSelected

\* !device.isSelected -> skip; !isOn && update.isOn !== true -> skip
UpdateLightsApplies(device, update) ==
  /\ device.isSelected
  /\ (device.currentState.isOn \/ update.isOn = Some(TRUE))

\* The attributes updateLights writes optimistically into one device.
UpdateLightsAttrs(device, update) ==
  IF ~UpdateLightsApplies(device, update) THEN {}
  ELSE (IF Defined(update.isOn) THEN {"isOn"} ELSE {})
       \cup (IF Defined(update.color) /\ device.capabilities.canChangeColor
             THEN {"color"} ELSE {})
       \cup (IF Defined(update.brightness) /\ device.capabilities.canChangeBrightness
             THEN {"brightness"} ELSE {})

\* The hub calls the queued closure of updateLights pushes for one device.
UpdateLightsCalls(device, id, update) ==
  IF ~UpdateLightsApplies(device, update) THEN << >>
  ELSE (IF Defined(update.isOn)
        THEN << HubCall("setIsOn", id, update.isOn, None, None) >> ELSE << >>)
       \o (IF Defined(update.color) /\ device.capabilities.canChangeColor
           THEN << HubCall("setLightColor", id, None, update.color, None) >> ELSE << >>)
       \o (IF Defined(update.brightness) /\ device.capabilities.canChangeBrightness
           THEN << HubCall("setLightLevel", id, None, None,
                           Some(ClampBrightness(Val(update.brightness)))) >>
           ELSE << >>)

\* !device || !device.isSelected || !device.currentState.isOn -> skip
BatchApplies(devs, update) ==
  /\ update.deviceId \in DOMAIN devs
  /\ devs[update.deviceId].isSelected
  /\ devs[update.deviceId].currentState.isOn

BatchAttrs(devs, update) ==
  IF ~BatchApplies(devs, update) THEN {}
  ELSE (IF Defined(update.color) /\ devs[update.deviceId].capabilities.canChangeColor
        THEN {"color"} ELSE {})
       \cup (IF Defined(update.brightness)
                /\ devs[update.deviceId].capabilities.canChangeBrightness
             THEN {"brightness"} ELSE {})

\* The hub calls the queued closure of updateLightsBatch pushes for one entry.
BatchCalls(devs, update) ==
  IF ~BatchApplies(devs, update) THEN << >>
  ELSE (IF Defined(update.color) /\ devs[update.deviceId].capabilities.canChangeColor
        THEN << HubCall("setLightColor", update.deviceId, None, update.color, None) >>
        ELSE << >>)
       \o (IF Defined(update.brightness)
              /\ devs[update.deviceId].capabilities.canChangeBrightness
           THEN << HubCall("setLightLevel", update.deviceId, None, None,
                           Some(ClampBrightness(Val(update.brightness)))) >>
           ELSE << >>)

\* update.brightness && ... : a brightness of 0 is falsy
Truthy(brightness) == Defined(brightness) /\ Val(brightness) # 0

\* The attributes updateSingleLight writes optimistically (its caller has
\* checked that the device exists and is on).
SingleAttrs(device, update) ==
  (IF Defined(update.color) /\ device.capabilities.canChangeColor
   THEN {"color"} ELSE {})
  \cup (IF Truthy(update.brightness) /\ device.capabilities.canChangeBrightness
        THEN {"brightness"} ELSE {})

\* The closure of updateSingleLight without the canChangeColor test.
SingleCalls_NoColorGate(device, update) ==
  (IF Defined(update.color)
   THEN << HubCall("setLightColor", update.deviceId, None, update.color, None) >>
   ELSE << >>)
  \o (IF Truthy(update.brightness) /\ device.capabilities.canChangeBrightness
      THEN << HubCall("setLightLevel", update.deviceId, None, None,
                      Some(ClampBrightness(Val(update.brightness)))) >>
      ELSE << >>)

\* The hub calls the queued closure of updateSingleLight pushes.
SingleCalls(device, update) ==
  (IF Defined(update.color) /\ device.capabilities.canChangeColor
   THEN << HubCall("setLightColor", update.deviceId, None, update.color, None) >>
   ELSE << >>)
  \o (IF Truthy(update.brightness) /\ device.capabilities.canChangeBrightness
      THEN << HubCall("setLightLevel", update.deviceId, None, None,
                      Some(ClampBrightness(Val(update.brightness)))) >>
      ELSE << >>)

\* device.currentState after the optimistic writes of `attrs` from `update`.
WriteState(device, update, attrs) ==
  [device EXCEPT
     !.currentState.isOn =
        IF "isOn" \in attrs THEN Val(update.isOn) ELSE @,
     !.currentState.color =
        IF "color" \in attrs THEN update.color ELSE @,
     !.currentState.brightness =
        IF "brightness" \in attrs THEN Val(update.brightness) ELSE @]

\* this.devices.forEach(...) of updateLights: the registry after the
\* optimistic update.
OptimisticUpdateLights(devs, update) ==
  [d \in DOMAIN devs |-> WriteState(devs[d], update, UpdateLightsAttrs(devs[d], update))]

\* updates.forEach(...) of updateLightsBatch, entry by entry.
RECURSIVE OptimisticBatch(_, _)
OptimisticBatch(devs, updates) ==
  IF updates = << >> THEN devs
  ELSE LET u == Head(updates)
           attrs == BatchAttrs(devs, u)
       IN OptimisticBatch(
            IF attrs = {} THEN devs
            ELSE [devs EXCEPT ![u.deviceId] = WriteState(@, u, attrs)],
            Tail(updates))

\* The <<device, attribute>> pairs a batch writes optimistically.
RECURSIVE BatchWritten(_, _)
BatchWritten(devs, updates) ==
  IF updates = << >> THEN {}
  ELSE LET u == Head(updates)
           attrs == BatchAttrs(devs, u)
       IN { <<u.deviceId, a>> : a \in attrs }
          \cup BatchWritten(
                 IF attrs = {} THEN devs
                 ELSE [devs EXCEPT ![u.deviceId] = WriteState(@, u, attrs)],
                 Tail(updates))

\* for (const device of this.devices.values()) { ... promises.push(...) }
RECURSIVE UpdateLightsPromises(_, _, _)
UpdateLightsPromises(devs, order, update) ==
  IF order = << >> THEN << >>
  ELSE (IF Head(order) \in DOMAIN devs
        THEN UpdateLightsCalls(devs[Head(order)], Head(order), update)
        ELSE << >>)
       \o UpdateLightsPromises(devs, Tail(order), update)

\* for (const update of updates) { ... promises.push(...) }
RECURSIVE BatchPromises(_, _)
BatchPromises(devs, updates) ==
  IF updates = << >> THEN << >>
  ELSE BatchCalls(devs, Head(updates)) \o BatchPromises(devs, Tail(updates))

\* The promises array a queue item's closure builds when it runs against
\* the registry `devs`.
Promises(item, devs) ==
  CASE item.kind = "updateLights" ->
         UpdateLightsPromises(devs, DevOrder, item.updates[1])
    [] item.kind = "updateLightsBatch" ->
         BatchPromises(devs, item.updates)
    [] item.kind = "updateSingleLight" ->
         SingleCalls(devs[item.updates[1].deviceId], item.updates[1])

(* --------------------------- CommandQueue ------------------------------- *)

Min(a, b) == IF a < b THEN a ELSE b
Max(a, b) == IF a > b THEN a ELSE b

RemoveAt(s, i) == SubSeq(s, 1, i - 1) \o SubSeq(s, i + 1, Len(s))

\* The variables CommandQueue.add and CommandQueue.process read and write,
\* as one record.
QState ==
  [queue |-> queue, processing |-> processing, loops |-> loops,
   inflight |-> inflight, started |-> started, lastExec |-> lastExec,
   dispatches |-> dispatches, clock |-> clock]

Commit(qs) ==
  /\ queue' = qs.queue
  /\ processing' = qs.processing
  /\ loops' = qs.loops
  /\ inflight' = qs.inflight
  /\ started' = qs.started
  /\ lastExec' = qs.lastExec
  /\ dispatches' = qs.dispatches
  /\ clock' = qs.clock

\* A drain loop that is running synchronous code.
RunningLoop == [pc |-> "run", sleepLeft |-> 0, item |-> 0, kind |-> "", rejected |-> FALSE]

\* add() starting process() whatever this.processing says.
ShouldStartProcess_Always(isProcessing) == TRUE

\* if (!this.processing) this.process()
ShouldStartProcess(isProcessing) == ~isProcessing

\* The comparison of process() the wrong way round.
NeedsSleep_Inverted(timeSinceLastExecution) == timeSinceLastExecution > minInterval

\* if (timeSinceLastExecution < this.minInterval)
NeedsSleep(timeSinceLastExecution) == timeSinceLastExecution < minInterval

\* The sleep computed from commandsPerSecond instead of minInterval.
SleepMs_Unscaled(timeSinceLastExecution) ==
  Max(commandsPerSecond - timeSinceLastExecution, 0)

\* await this.sleep(this.minInterval - timeSinceLastExecution)
SleepMs(timeSinceLastExecution) == minInterval - timeSinceLastExecution

\* const command = this.queue.shift(), with a mistaken pop() in its place.
Shift_Pop(q) == [command |-> q[Len(q)], rest |-> SubSeq(q, 1, Len(q) - 1)]

\* const command = this.queue.shift()
Shift(q) == [command |-> Head(q), rest |-> Tail(q)]

\* await command(): drain loop `li` takes the next item off the queue and
\* runs its closure up to the await of its promises; the hub calls are
\* dispatched here.
Execute(qs, devs, li) ==
  LET item == Shift(qs.queue).command
      ps == Promises(item, devs)
      t == qs.clock + 1
  IN [qs EXCEPT
        !.queue = Shift(qs.queue).rest,
        !.loops[li] = [pc |-> "await", sleepLeft |-> 0, item |-> item.id,
                       kind |-> item.kind, rejected |-> FALSE],
        !.inflight = @ \cup { [item |-> item.id, n |-> n, call |-> ps[n], sentAt |-> t] :
                               n \in 1..Len(ps) },
        !.started = Append(@, item.id),
        !.lastExec = { [item |-> item, seen |-> devs, calls |-> ps, sentAt |-> t] },
        !.dispatches = Append(@, [age |-> 0, calls |-> Len(ps)]),
        !.clock = t]

\* The drain loop `li` ends: this.processing = false.
ExitLoop(qs, li) ==
  [qs EXCEPT !.processing = FALSE, !.loops = RemoveAt(@, li)]

\* One pass of while (this.queue.length > 0) { ... } from the loop test to
\* the first await, the time since the last execution being `since`.
ProcessTop(qs, devs, li, since) ==
  IF qs.queue = << >> THEN ExitLoop(qs, li)
  ELSE IF NeedsSleep(since)
       THEN [qs EXCEPT !.loops[li] = [RunningLoop EXCEPT !.pc = "sleep",
                                                          !.sleepLeft = SleepMs(since)]]
       ELSE Execute(qs, devs, li)

\* The rest of the pass after the sleep: shift, and if (command) run it;
\* with nothing to shift the loop test fails next and the loop ends.
AfterSleep(qs, devs, li) ==
  IF qs.queue = << >> THEN ExitLoop(qs, li) ELSE Execute(qs, devs, li)

\* CommandQueue.add: push, and start process() unless one is running;
\* process() sets processing and runs synchronously to its first await.
Add(qs, devs, item, since) ==
  LET q1 == [qs EXCEPT !.queue = Append(@, item)]
  IN IF ShouldStartProcess(q1.processing)
     THEN ProcessTop([q1 EXCEPT !.processing = TRUE,
                                !.loops = Append(@, RunningLoop)],
                     devs, Len(q1.loops) + 1, since)
     ELSE q1

(* ------------------------------ actions --------------------------------- *)

Init ==
  /\ loadedSelection = {}
  /\ selectedDeviceIds = {}
  /\ selectionFile = None
  /\ config = None
  /\ tokenFile = None
  /\ isConnected = FALSE
  /\ healthCheckInterval = None
  /\ healthTimers = {}
  /\ connects = {}
  /\ lastToken = None
  /\ lastProbe = None
  /\ client = "null"
  /\ devices = [d \in {} |-> {}]
  /\ queue = << >>
  /\ processing = FALSE
  /\ sinceLastExecution = minInterval
  /\ loops = << >>
  /\ inflight = {}
  /\ settled = [i \in ItemIds |-> "unused"]
  /\ failed = {}
  /\ started = << >>
  /\ lastExec = {}
  /\ dispatches = << >>
  /\ nextId = 1
  /\ clock = 0
  /\ scenes = ScenePresets
  /\ currentScene = None
  /\ isRunning = FALSE
  /\ activeInterval = None
  /\ timers = {}
  /\ lastTick = None
  /\ request = None
  /\ isTestRunning = FALSE
  /\ tests = {}
  /\ pulses = {}
  /\ sinceLastBeatUpdate = beatUpdateInterval
  /\ sinceLastLightUpdate = lightUpdateInterval
  /\ colorHistory = << >>
  /\ frames = {}
  /\ lastFrame = None
  /\ lastSelection = None
  /\ syncSettings = DefaultSettings
  /\ lastSettings = None
  /\ load = None
  /\ stores = [c \in {} |-> {}]
  /\ energyHistory = << >>
  /\ sinceLastBeat = 2 * minBeatInterval
  /\ lastDetect = None
  /\ lastInterpolation = None
  /\ lastSpatial = None
  /\ channel = [c \in {} |-> << >>]
  /\ sections = {}
  /\ ws = "null"
  /\ readyState = "NONE"
  /\ closeCode = None
  /\ wsConnected = FALSE
  /\ reconnectAttempts = 0
  /\ reconnectTimer = None
  /\ heartbeatTimer = FALSE
  /\ messageQueue = << >>
  /\ nextMessage = 1
  /\ scheduledSinceOpen = 0
  /\ disconnectCalled = FALSE
  /\ lastStep = None

\* isSelected: this.selectedDeviceIds.size === 0 ? true
\*                                              : this.selectedDeviceIds.has(device.id)
IsSelected(selected, id) ==
  IF Cardinality(selected) = 0 THEN TRUE ELSE id \in selected

\* devices.forEach(d => { ... }) of discoverDevices over the fixtures the hub
\* lists, in its order: each fixture is entered into the registry `devs`, and
\* a participating one is added to selectedDeviceIds before the next fixture
\* is looked at.  `on` are the fixtures the hub reports as powered on.
RECURSIVE DiscoverDevices(_, _, _, _, _)
DiscoverDevices(listed, hub, on, selected, devs) ==
  IF listed = << >> THEN devs
  ELSE LET id == Head(listed)
           deviceInfo ==
             [capabilities |-> hub.capabilities[id],
              currentState |-> [isOn |-> id \in on, brightness |-> hub.lightLevel[id],
                                color |-> None],
              isSelected |-> IsSelected(selected, id)]
       IN DiscoverDevices(Tail(listed), hub, on,
                          IF deviceInfo.isSelected THEN selected \cup {id}
                          ELSE selected,
                          [d \in DOMAIN devs \cup {id} |->
                             IF d = id THEN deviceInfo ELSE devs[d]])

\* selectedDeviceIds after the forEach of discoverDevices.
RECURSIVE DiscoverSelection(_, _)
DiscoverSelection(listed, selected) ==
  IF listed = << >> THEN selected
  ELSE DiscoverSelection(Tail(listed),
                         IF IsSelected(selected, Head(listed))
                         THEN selected \cup {Head(listed)} ELSE selected)

\* if (this.selectedDeviceIds.size > 0 && !fs.existsSync(SELECTION_FILE))
\*   this.saveSelection()
SaveFirstSelection(selected, file) ==
  IF Cardinality(selected) > 0 /\ ~Defined(file) THEN Some(selected) ELSE file

\* startConnectionHealthCheck: an existing interval is cleared and a new
\* one is set, on the record `cn` of healthCheckInterval and healthTimers.
StartConnectionHealthCheck(cn) ==
  LET cleared == IF Defined(cn.healthCheckInterval)
                 THEN cn.healthTimers \ cn.healthCheckInterval
                 ELSE cn.healthTimers
      handle == CHOOSE h \in 1..(Cardinality(cleared) + 1) : h \notin cleared
  IN [healthCheckInterval |-> Some(handle), healthTimers |-> cleared \cup {handle}]

\* The constructor's loadSelection and initialize -> createDirigeraClient,
\* discoverDevices: the registry is filled from what the hub reports.  An
\* empty hub.selection stands for a run without a selection file.  The
\* service is constructed with a token in its config, the calls to the hub
\* succeed, and the health check is started.
Initialize(reports, ons) ==
  /\ client = "null"
  /\ config = None
  /\ client' = "ready"
  /\ config' = Some([accessToken |-> Some("configured")])
  /\ lastToken' = Some("configured")
  /\ isConnected' = TRUE
  /\ LET hc == StartConnectionHealthCheck([healthCheckInterval |-> healthCheckInterval,
                                           healthTimers |-> healthTimers])
     IN /\ healthCheckInterval' = hc.healthCheckInterval
        /\ healthTimers' = hc.healthTimers
  /\ UNCHANGED << tokenFile, connects, lastProbe >>
  /\ \E hub \in reports, on \in ons :
       /\ loadedSelection' = hub.selection
       /\ devices' = DiscoverDevices(DevOrder, hub, on, hub.selection, devices)
       /\ selectedDeviceIds' = DiscoverSelection(DevOrder, hub.selection)
       /\ selectionFile' =
            SaveFirstSelection(DiscoverSelection(DevOrder, hub.selection),
                               IF hub.selection = {} THEN None ELSE Some(hub.selection))
  /\ UNCHANGED << queue, processing, sinceLastExecution, loops, inflight,
                  settled, failed, started, lastExec, dispatches, nextId, clock >>

\* The service call without its emit.
ChangeNotification_Missing(written) == {}

\* if (updatedDevices.length > 0) this.emit('devicesUpdate', updatedDevices)
\* (if (hasChanges) this.emit('deviceUpdate', device)): the devices named in
\* the change notification.
ChangeNotification(written) == { w[1] : w \in written }

\* A queue item as add() receives it; `optimistic` are the <<device,
\* attribute>> pairs the call wrote optimistically, `notified` the devices of
\* the change notification it emitted (at clock value notifiedAt), and
\* onAtCall / selectedAtCall the fixtures that were on / participating when
\* the service call was made.
ItemOf(sv, kind, updates, written) ==
  [id |-> sv.nextId, kind |-> kind, updates |-> updates, optimistic |-> written,
   notified |-> ChangeNotification(written), notifiedAt |-> sv.q.clock + 1,
   onAtCall |-> { d \in DOMAIN sv.devices : sv.devices[d].currentState.isOn },
   selectedAtCall |-> { d \in DOMAIN sv.devices : sv.devices[d].isSelected }]

\* What a service call reads and writes of the service and its queue, as one
\* record, so that a caller making several service calls in one run can
\* thread it through them.
Service ==
  [devices |-> devices, nextId |-> nextId, settled |-> settled, q |-> QState]

CommitService(sv) ==
  /\ devices' = sv.devices
  /\ nextId' = sv.nextId
  /\ settled' = sv.settled
  /\ Commit(sv.q)
  /\ UNCHANGED << selectionVars, connectionVars, client, sinceLastExecution, failed >>

\* The tail every service call shares: emit, then commandQueue.add.
EnqueueOn(sv, devs, item) ==
  [devices |-> devs,
   nextId |-> sv.nextId + 1,
   settled |-> [sv.settled EXCEPT ![item.id] = "pending"],
   q |-> Add([sv.q EXCEPT !.clock = @ + 1], devs, item, sinceLastExecution)]

Item(kind, updates, written) == ItemOf(Service, kind, updates, written)

Enqueue(devs, item) == CommitService(EnqueueOn(Service, devs, item))

\* updateLights as a function of the service state.
UpdateLightsOn(sv, update) ==
  IF client # "ready" THEN sv
  ELSE LET devs == OptimisticUpdateLights(sv.devices, update)
           written == { <<d, a>> \in Dev \X {"isOn", "color", "brightness"} :
                          d \in DOMAIN sv.devices
                          /\ a \in UpdateLightsAttrs(sv.devices[d], update) }
       IN EnqueueOn(sv, devs, ItemOf(sv, "updateLights", << update >>, written))

\* updateLightsBatch as a function of the service state.
UpdateLightsBatchOn(sv, updates) ==
  IF client # "ready" THEN sv
  ELSE EnqueueOn(sv, OptimisticBatch(sv.devices, updates),
                 ItemOf(sv, "updateLightsBatch", updates,
                        BatchWritten(sv.devices, updates)))

\* updateSingleLight as a function of the service state; without a client it
\* throws, and for a missing or powered-off device it returns at once.
UpdateSingleLightOn(sv, update) ==
  IF \/ client # "ready"
     \/ update.deviceId \notin DOMAIN sv.devices
     \/ ~sv.devices[update.deviceId].currentState.isOn
  THEN sv
  ELSE LET d == update.deviceId
           attrs == SingleAttrs(sv.devices[d], update)
       IN EnqueueOn(sv, [sv.devices EXCEPT ![d] = WriteState(@, update, attrs)],
                    ItemOf(sv, "updateSingleLight", << update >>,
                           { <<d, a>> : a \in attrs }))

\* devices.map(device => this.dirigeraService.updateSingleLight({...})): the
\* calls are made one after the other in one run.
RECURSIVE UpdateSingleLightsOn(_, _)
UpdateSingleLightsOn(sv, updates) ==
  IF updates = << >> THEN sv
  ELSE UpdateSingleLightsOn(UpdateSingleLightOn(sv, Head(updates)), Tail(updates))

UpdateLights(update) ==
  /\ client = "ready"
  /\ LET devs == OptimisticUpdateLights(devices, update)
         written == { <<d, a>> \in Dev \X {"isOn", "color", "brightness"} :
                        a \in UpdateLightsAttrs(devices[d], update) }
     IN Enqueue(devs, Item("updateLights", << update >>, written))

UpdateLightsBatch(updates) ==
  /\ client = "ready"
  /\ Enqueue(OptimisticBatch(devices, updates),
             Item("updateLightsBatch", updates, BatchWritten(devices, updates)))

UpdateSingleLight(update) ==
  /\ client = "ready"
  /\ update.deviceId \in DOMAIN devices
  /\ devices[update.deviceId].currentState.isOn
  /\ LET d == update.deviceId
         attrs == SingleAttrs(devices[d], update)
     IN Enqueue([devices EXCEPT ![d] = WriteState(@, update, attrs)],
                Item("updateSingleLight", << update >>, { <<d, a>> : a \in attrs }))

\* The timer of this.sleep(...) fires for drain loop `li`.
SleepDone(li) ==
  /\ li \in DOMAIN loops
  /\ loops[li].pc = "sleep"
  /\ loops[li].sleepLeft = 0
  /\ Commit(AfterSleep(QState, devices, li))
  /\ UNCHANGED << selectionVars, connectionVars, client, devices, sinceLastExecution, settled, failed, nextId >>

\* The hub calls of queue item `id` that have not settled.
Pending(id) == { c \in inflight : c.item = id }

\* The await of the item's promises without the catch of a rejection.
CommandFinished_NoCatch(loop) == Pending(loop.item) = {} /\ ~loop.rejected

\* Whether the await of the item's promises is over: Promise.allSettled
\* waits for every call, Promise.all (updateSingleLight) also ends at the
\* first rejection, which the closure catches.
CommandFinished(loop) ==
  IF loop.kind = "updateSingleLight"
  THEN Pending(loop.item) = {} \/ loop.rejected
  ELSE Pending(loop.item) = {}

\* await command() returns in drain loop `li`: the item's promise is
\* resolved, lastExecutionTime = Date.now(), and the loop goes round.
CommandDone(li) ==
  /\ li \in DOMAIN loops
  /\ loops[li].pc = "await"
  /\ CommandFinished(loops[li])
  /\ settled' = [settled EXCEPT ![loops[li].item] = "resolved"]
  /\ sinceLastExecution' = 0
  /\ Commit(ProcessTop([QState EXCEPT !.lastExec = {}], devices, li, 0))
  /\ UNCHANGED << selectionVars, connectionVars, client, devices, failed, nextId >>

\* The hub answers call `c`: fulfilled (ok) or rejected.
HubSettle(c, ok) ==
  /\ c \in inflight
  /\ inflight' = inflight \ {c}
  /\ failed' = IF ok THEN failed ELSE {c.item}
  /\ loops' = [li \in DOMAIN loops |->
                 IF ~ok /\ loops[li].pc = "await" /\ loops[li].item = c.item
                 THEN [loops[li] EXCEPT !.rejected = TRUE]
                 ELSE loops[li]]
  /\ UNCHANGED << selectionVars, connectionVars, client, devices, queue, processing, sinceLastExecution,
                  settled, started, lastExec, dispatches, nextId, clock >>

\* The remembered dispatches `ms` later; what is older than the horizon is
\* forgotten.
Older(ds, ms) ==
  SelectSeq([n \in DOMAIN ds |-> [ds[n] EXCEPT !.age = @ + ms]],
            LAMBDA d : d.age < Horizon)

\* `ms` milliseconds pass.
Tick(ms) ==
  /\ sinceLastExecution' = Min(sinceLastExecution + ms, minInterval)
  /\ loops' = [li \in DOMAIN loops |->
                 [loops[li] EXCEPT !.sleepLeft = Max(@ - ms, 0)]]
  /\ dispatches' = Older(dispatches, ms)
  /\ UNCHANGED << selectionVars, connectionVars, client, devices, queue, processing, inflight, settled,
                  failed, started, lastExec, nextId, clock >>

\* handleDeviceUpdate: the hub pushes a new isOn of device `d`.
HandleDeviceUpdate(d, isOn) ==
  /\ d \in DOMAIN devices
  /\ isOn # devices[d].currentState.isOn
  /\ devices' = [devices EXCEPT ![d].currentState.isOn = isOn]
  /\ UNCHANGED << selectionVars, connectionVars, client, queue, processing, sinceLastExecution, loops, inflight,
                  settled, failed, started, lastExec, dispatches, nextId, clock >>


(* ------------------------------ SceneEngine ----------------------------- *)

\* The fields of the engine that its methods read and write, as one record.
Engine ==
  [scenes |-> scenes, currentScene |-> currentScene, isRunning |-> isRunning,
   activeInterval |-> activeInterval, timers |-> timers]

CommitEngine(en) ==
  /\ scenes' = en.scenes
  /\ currentScene' = en.currentScene
  /\ isRunning' = en.isRunning
  /\ activeInterval' = en.activeInterval
  /\ timers' = en.timers

\* A clearInterval that leaves the interval running.
ClearInterval_Noop(ts, handle) == ts

\* clearInterval(handle)
ClearInterval(ts, handle) == { t \in ts : t.handle \notin handle }

\* setInterval(callback, intervalTime): the handle is a fresh one.
SetInterval(ts, sceneId, callback, intervalTime) ==
  [handle |-> CHOOSE h \in 1..(Cardinality(ts) + 1) : \A t \in ts : t.handle # h,
   scene |-> sceneId, callback |-> callback, intervalTime |-> intervalTime]

\* SceneEngine.stop
Stop(en) ==
  [en EXCEPT
     !.timers = IF Defined(en.activeInterval) THEN ClearInterval(@, en.activeInterval)
                ELSE @,
     !.activeInterval = None,
     !.currentScene = None,
     !.isRunning = FALSE]

\* startScene going on without stopping the scene that runs.
StopExisting_Skipped(en) == en

\* this.stop(); // Stop any existing scene
StopExisting(en) == Stop(en)

\* const intervalTime = scene.spatial ? 1000 : scene.transitionSpeed / 2
IntervalTime(scene) == IF scene.spatial THEN 1000 ELSE scene.transitionSpeed \div 2

\* if (scene.spatial) this.spatialLoop() else this.driftLoop()
LoopOf(scene) == IF scene.spatial THEN "spatialLoop" ELSE "driftLoop"

\* SceneEngine.startScene for a scene it knows, without applySceneInitialState.
StartSceneOn(en, sceneId) ==
  LET scene == en.scenes[sceneId]
      e1 == [StopExisting(en) EXCEPT !.currentScene = Some(sceneId), !.isRunning = TRUE]
      t == SetInterval(e1.timers, sceneId, LoopOf(scene), IntervalTime(scene))
  IN IF scene.type = "drift"
     THEN [e1 EXCEPT !.timers = @ \cup {t}, !.activeInterval = Some(t.handle)]
     ELSE e1

\* { ...this.scenes[index], ...updates }
MergeScene(scene, updates) ==
  [scene EXCEPT
     !.transitionSpeed = IF Defined(updates.transitionSpeed)
                         THEN Val(updates.transitionSpeed) ELSE @,
     !.brightness = IF Defined(updates.brightness) THEN Val(updates.brightness) ELSE @]

\* SceneEngine.updateScene for a scene it knows, without saveSceneOverrides.
UpdateSceneOn(en, sceneId, updates) ==
  LET e1 == [en EXCEPT !.scenes[sceneId] = MergeScene(@, updates)]
      scene == e1.scenes[sceneId]
      cleared == ClearInterval(e1.timers, e1.activeInterval)
      t == SetInterval(cleared, sceneId, "driftLoop", scene.transitionSpeed \div 2)
  IN IF e1.currentScene = Some(sceneId) /\ e1.isRunning /\ Defined(e1.activeInterval)
     THEN IF scene.type = "drift"
          THEN [e1 EXCEPT !.timers = cleared \cup {t}, !.activeInterval = Some(t.handle)]
          ELSE [e1 EXCEPT !.timers = cleared]
     ELSE e1

\* getEligibleDevices: the fixtures that are on, participating and color
\* capable, in the order of the registry.
EligibleDevices(devs) ==
  SelectSeq(DevOrder,
            LAMBDA d : /\ d \in DOMAIN devs
                       /\ devs[d].currentState.isOn
                       /\ devs[d].isSelected
                       /\ devs[d].capabilities.canChangeColor)

\* The updates a loop or applySceneInitialState builds for the fixtures `ds`:
\* a palette color (here always Red) at the scene's brightness.
SceneLightUpdates(ds, scene) ==
  [n \in DOMAIN ds |-> DeviceUpdate(ds[n], Some(Red), Some(scene.brightness))]

\* applySceneInitialState, run by startScene up to its await.
ApplySceneInitialState(sv, en) ==
  LET ds == EligibleDevices(sv.devices)
  IN IF ~Defined(en.currentScene) \/ ds = << >> THEN sv
     ELSE UpdateLightsBatchOn(sv, SceneLightUpdates(ds, en.scenes[Val(en.currentScene)]))

\* What the handler of API request `api` found and did: the scene that was
\* running when it arrived, whether it answered with an error status, how
\* many queue items it enqueued and whether it changed the registry.
Request(api, id, command, rejected, sv) ==
  [api |-> api, id |-> id, command |-> command, rejected |-> rejected,
   running |-> IF isRunning THEN currentScene ELSE None,
   enqueued |-> sv.nextId - nextId,
   changed |-> sv.devices # devices]

\* A LightCommand: {type, brightness?, color?, returnToPrevious?,
\* returnDelay?}.
LightCommand(type, color, brightness, returnToPrevious, returnDelay) ==
  [type |-> type, color |-> color, brightness |-> brightness,
   returnToPrevious |-> returnToPrevious, returnDelay |-> returnDelay]

NoCommand == LightCommand("", None, None, FALSE, None)

\* POST /api/scenes/start -> SceneEngine.startScene(sceneId)
StartScene(sceneId) ==
  IF sceneId \notin DOMAIN scenes
  THEN /\ request' = Some(Request("startScene", sceneId, NoCommand, TRUE, Service))
       /\ UNCHANGED << adminVars, sceneVars, isTestRunning, tests, pulses, syncVars, selectionVars, connectionVars, client, devices, queue, processing,
                       sinceLastExecution, loops, inflight, settled, failed, started,
                       lastExec, dispatches, nextId, clock >>
  ELSE LET en == StartSceneOn(Engine, sceneId)
           sv == ApplySceneInitialState(Service, en)
       IN /\ CommitEngine(en)
          /\ CommitService(sv)
          /\ request' = Some(Request("startScene", sceneId, NoCommand, FALSE, sv))
          /\ UNCHANGED << adminVars, lastTick, isTestRunning, tests, pulses, syncVars >>

\* POST /api/scenes/stop -> SceneEngine.stop()
StopScene ==
  /\ CommitEngine(Stop(Engine))
  /\ request' = Some(Request("stopScene", "", NoCommand, FALSE, Service))
  /\ UNCHANGED << adminVars, lastTick, isTestRunning, tests, pulses, syncVars,
                  selectionVars, connectionVars, client, devices, queue, processing,
                  sinceLastExecution, loops, inflight, settled, failed, started,
                  lastExec, dispatches, nextId, clock >>

\* PUT /api/scenes/:id -> SceneEngine.updateScene(id, updates)
UpdateScene(sceneId, updates) ==
  /\ IF sceneId \notin DOMAIN scenes
     THEN /\ request' = Some(Request("updateScene", sceneId, NoCommand, TRUE, Service))
          /\ UNCHANGED << scenes, currentScene, isRunning, activeInterval, timers >>
     ELSE /\ CommitEngine(UpdateSceneOn(Engine, sceneId, updates))
          /\ request' = Some(Request("updateScene", sceneId, NoCommand, FALSE, Service))
  /\ UNCHANGED << adminVars, lastTick, isTestRunning, tests, pulses, syncVars,
                  selectionVars, connectionVars, client, devices, queue, processing,
                  sinceLastExecution, loops, inflight, settled, failed, started,
                  lastExec, dispatches, nextId, clock >>

\* The interval `t` fires: driftLoop or spatialLoop runs.  driftLoop updates
\* the fixtures Math.random() picks, `picked`, spatialLoop all eligible ones.
SceneTick(t, picked) ==
  /\ t \in timers
  /\ IF \/ ~Defined(currentScene)
        \/ ~isRunning
        \/ (t.callback = "spatialLoop" /\ ~scenes[Val(currentScene)].spatial)
     THEN UNCHANGED << adminVars, lastTick, selectionVars, connectionVars, client, devices, queue, processing,
                       sinceLastExecution, loops, inflight, settled, failed, started,
                       lastExec, dispatches, nextId, clock >>
     ELSE LET scene == scenes[Val(currentScene)]
              eligible == EligibleDevices(devices)
              ds == IF t.callback = "driftLoop"
                    THEN SelectSeq(eligible, LAMBDA d : d \in picked)
                    ELSE eligible
          IN /\ CommitService(UpdateSingleLightsOn(Service, SceneLightUpdates(ds, scene)))
             /\ lastTick' = Some([scene |-> t.scene, current |-> Val(currentScene),
                                  loop |-> t.callback, intervalTime |-> t.intervalTime,
                                  brightness |-> scene.brightness,
                                  calls |-> Len(ds),
                                  after |-> request])
  /\ UNCHANGED << adminVars, scenes, currentScene, isRunning, activeInterval, timers, request,
                  isTestRunning, tests, pulses, syncVars >>

(* --------- DirigeraService.executeCommand and the LightsController ------- *)

\* A color whose hue is off the scale [0, 360).
OffScale == [hue |-> 400, saturation |-> 100]

\* The bodies of POST /api/lights/update: {color?, brightness?, isOn?}.
UpdateBodies ==
  { LightUpdate(None, None, Some(80)),
    LightUpdate(None, None, Some(150)),
    LightUpdate(None, Some(OffScale), None) }

\* The commands of POST /api/lights/command.  STROBE (ten updateLights calls
\* 100 ms apart) is not among them; BLINK is a type the API does not know.
Commands ==
  { LightCommand("SET_COLOR", Some(Red), None, FALSE, None),
    LightCommand("SET_BRIGHTNESS", None, Some(150), FALSE, None),
    LightCommand("PULSE", None, Some(150), TRUE, None),
    LightCommand("BLINK", None, None, FALSE, None) }

\* The testType of POST /api/lights/test; the pulse and strobe tests are not
\* among them, "disco" is a type the API does not know.
TestTypes == {"rainbow", "disco"}

\* The test types of TestSpec.
TestRuns == {"rainbow", "pulse", "strobe"}

\* The validation of POST /api/lights/update (saturation is in percent here).
ValidUpdate(body) ==
  /\ Defined(body.color) =>
       /\ Val(body.color).hue >= 0 /\ Val(body.color).hue < 360
       /\ Val(body.color).saturation >= 0 /\ Val(body.color).saturation <= 100
  /\ Defined(body.brightness) =>
       (Val(body.brightness) >= 1 /\ Val(body.brightness) <= 100)

\* const validCommands = ['PULSE', 'SET_COLOR', 'SET_BRIGHTNESS', 'STROBE']
ValidCommand(command) ==
  command.type \in {"PULSE", "SET_COLOR", "SET_BRIGHTNESS", "STROBE"}

\* A manual request that leaves the scene running.
ManualOverride_Missing(en) == en

\* Manual control overrides scenes: this.sceneEngine.stop()
ManualOverride(en) == Stop(en)

\* Array.from(this.devices.values())[0]?.currentState.brightness || 50
OriginalBrightness(devs) ==
  LET first == Head(SelectSeq(DevOrder, LAMBDA d : d \in DOMAIN devs))
  IN IF devs[first].currentState.brightness = 0 THEN 50
     ELSE devs[first].currentState.brightness

\* command.returnDelay || 100
ReturnDelay(command) ==
  IF Defined(command.returnDelay) /\ Val(command.returnDelay) # 0
  THEN Val(command.returnDelay) ELSE 100

\* The time since handleBeatDetection last issued a PULSE command, up to
\* beatUpdateInterval.
SinceLastPulse(ps) ==
  LET ages == { p.age : p \in { q \in ps : q.caller = "beat" } }
  IN IF ages = {} THEN beatUpdateInterval
     ELSE CHOOSE a \in ages : \A b \in ages : a <= b

\* executePulseCommand up to its await of updateLights, on the service state
\* st.sv and the pulses st.pulses.  The run is remembered with the item it
\* waits for, the brightness it stored, the brightness every fixture had,
\* whether it is the first pulse, whether an earlier pulse had not returned
\* yet, how long ago handleBeatDetection had last issued a pulse, and, for a
\* pulse of handleBeatDetection, the time since the handler read Date.now().
ExecutePulseCommandOn(st, command, caller) ==
  IF ~Defined(command.brightness) \/ DOMAIN st.sv.devices = {} THEN st
  ELSE LET sv == UpdateLightsOn(st.sv, LightUpdate(None, None, command.brightness))
       IN [sv |-> sv,
           pulses |-> st.pulses \cup
             { [item |-> IF sv.nextId = st.sv.nextId THEN 0 ELSE st.sv.nextId,
                pc |-> "flash",
                originalBrightness |-> OriginalBrightness(st.sv.devices),
                returnToPrevious |-> command.returnToPrevious,
                left |-> ReturnDelay(command),
                previous |-> [d \in DOMAIN st.sv.devices |->
                                st.sv.devices[d].currentState.brightness],
                first |-> st.pulses = {},
                overlaps |-> \E p \in st.pulses : p.pc # "returned",
                caller |-> caller,
                gap |-> SinceLastPulse(st.pulses),
                age |-> 0,
                back |-> 0] }]

\* DirigeraService.executeCommand up to its first await.
ExecuteCommandOn(st, command, caller) ==
  CASE command.type = "PULSE" -> ExecutePulseCommandOn(st, command, caller)
    [] command.type = "SET_COLOR" ->
         IF Defined(command.color)
         THEN [st EXCEPT !.sv = UpdateLightsOn(@, LightUpdate(None, command.color, None))]
         ELSE st
    [] command.type = "SET_BRIGHTNESS" ->
         IF Defined(command.brightness)
         THEN [st EXCEPT !.sv = UpdateLightsOn(@, LightUpdate(None, None, command.brightness))]
         ELSE st
    [] OTHER -> st

\* POST /api/lights/update
PostLightsUpdate(body) ==
  LET sv == IF ValidUpdate(body) THEN UpdateLightsOn(Service, body) ELSE Service
  IN /\ CommitEngine(ManualOverride(Engine))
     /\ CommitService(sv)
     /\ request' = Some(Request("updateLights", "",
                                LightCommand("", body.color, body.brightness, FALSE, None),
                                ~ValidUpdate(body), sv))
     /\ UNCHANGED << adminVars, lastTick, isTestRunning, tests, pulses, syncVars >>

\* POST /api/lights/command
PostLightsCommand(command) ==
  LET st0 == [sv |-> Service, pulses |-> pulses]
      st == IF ValidCommand(command) THEN ExecuteCommandOn(st0, command, "api") ELSE st0
  IN /\ CommitEngine(ManualOverride(Engine))
     /\ CommitService(st.sv)
     /\ pulses' = st.pulses
     /\ request' = Some(Request("executeCommand", "", command, ~ValidCommand(command), st.sv))
     /\ UNCHANGED << adminVars, lastTick, isTestRunning, tests, syncVars >>

\* The update of one round of runRainbowTest.
RainbowUpdate(hue) == LightUpdate(None, Some([hue |-> hue, saturation |-> 100]), Some(80))

\* Return to neutral.
NeutralUpdate(saturation) ==
  LightUpdate(None, Some([hue |-> 60, saturation |-> saturation]), Some(50))

\* A run of runRainbowTest waiting for the updateLights it has just called on
\* the service state `sv` (item 0: there was no client and nothing to wait for).
RainbowAwait(sv, pc, hue) ==
  [test |-> "rainbow", pc |-> pc, hue |-> hue, i |-> 0, left |-> 0,
   item |-> IF sv.nextId = nextId THEN 0 ELSE nextId]

\* The update of round `i` of executeStrobeCommand.
StrobeUpdate(i) == LightUpdate(None, None, Some(IF i % 2 = 0 THEN 100 ELSE 10))

\* The command of a round of runPulseTest.
PulseTestCommand == LightCommand("PULSE", None, Some(100), TRUE, Some(200))

\* Round `i` of runPulseTest or of the executeStrobeCommand of runStrobeTest,
\* called on the state `st`: the state after it.
TestRoundOn(st, test, i) ==
  IF test = "strobe" THEN [st EXCEPT !.sv = UpdateLightsOn(@, StrobeUpdate(i))]
  ELSE ExecutePulseCommandOn(st, PulseTestCommand, "test")

\* A run of runPulseTest or runStrobeTest waiting in round `i` for the
\* updateLights called on the service state `sv`.
TestAwait(sv, test, i) ==
  [test |-> test, pc |-> "await", hue |-> 0, i |-> i, left |-> 0,
   item |-> IF sv.nextId = nextId THEN 0 ELSE nextId]

\* POST /api/lights/test: the scene is stopped and runRainbowTest runs up to
\* its first await; an unknown test type is answered with 400, and finally
\* resets isTestRunning.
PostLightsTest(testType) ==
  LET known == testType \in {"rainbow", "pulse", "strobe"}
      st0 == [sv |-> Service, pulses |-> pulses]
      st == IF testType = "rainbow"
            THEN [st0 EXCEPT !.sv = UpdateLightsOn(@, RainbowUpdate(0))]
            ELSE IF known THEN TestRoundOn(st0, testType, 0) ELSE st0
      sv == st.sv
  IN /\ CommitEngine(ManualOverride(Engine))
     /\ CommitService(sv)
     /\ isTestRunning' = known
     /\ tests' = IF testType = "rainbow" THEN tests \cup { RainbowAwait(sv, "await", 0) }
                 ELSE IF known THEN tests \cup { TestAwait(sv, testType, 0) }
                 ELSE tests
     /\ pulses' = st.pulses
     /\ request' = Some(Request("testLights", testType, NoCommand, ~known, sv))
     /\ UNCHANGED << adminVars, lastTick, syncVars >>

\* POST /api/lights/test/stop
PostLightsTestStop ==
  LET sv == UpdateLightsOn(Service, NeutralUpdate(10))
  IN /\ CommitEngine(ManualOverride(Engine))
     /\ CommitService(sv)
     /\ isTestRunning' = FALSE
     /\ request' = Some(Request("stopTest", "", NoCommand, FALSE, sv))
     /\ UNCHANGED << adminVars, lastTick, tests, pulses, syncVars >>

\* Whether the promise of queue item `id` has been resolved (0: no item).
Awaited(id) == IF id = 0 THEN TRUE ELSE settled[id] = "resolved"

\* The updateLights that run `t` of runRainbowTest awaits returns: it goes
\* to sleep for 300 ms, or, after the return to neutral, returns and
\* testLights finally resets isTestRunning.
RainbowAwaited(t) ==
  /\ t \in tests
  /\ t.test = "rainbow"
  /\ t.pc \in {"await", "neutral"}
  /\ Awaited(t.item)
  /\ IF t.pc = "await"
     THEN /\ tests' = (tests \ {t}) \cup { [t EXCEPT !.pc = "sleep", !.left = 300] }
          /\ UNCHANGED isTestRunning
     ELSE /\ tests' = tests \ {t}
          /\ isTestRunning' = FALSE
  /\ UNCHANGED << adminVars, sceneVars, request, pulses, syncVars, selectionVars, connectionVars, client, devices, queue,
                  processing, sinceLastExecution, loops, inflight, settled, failed,
                  started, lastExec, dispatches, nextId, clock >>

\* The sleep of run `t` is over: the next round of the loop, or, when the
\* loop is left, the return to neutral if the test was not stopped.
RainbowSleepDone(t) ==
  /\ t \in tests
  /\ t.test = "rainbow"
  /\ t.pc = "sleep"
  /\ t.left = 0
  /\ LET hue == t.hue + 30
         round == hue < 360 /\ isTestRunning
         sv == IF round THEN UpdateLightsOn(Service, RainbowUpdate(hue))
               ELSE IF isTestRunning THEN UpdateLightsOn(Service, NeutralUpdate(30))
               ELSE Service
     IN /\ CommitService(sv)
        /\ tests' = (tests \ {t}) \cup
                      (IF round THEN { RainbowAwait(sv, "await", hue) }
                       ELSE IF isTestRunning THEN { RainbowAwait(sv, "neutral", hue) }
                       ELSE {})
  /\ UNCHANGED << adminVars, sceneVars, request, isTestRunning, pulses, syncVars >>

\* The updateLights that run `t` of runPulseTest or runStrobeTest awaits
\* returns, executePulseCommand has set its timer, and the run goes to sleep:
\* 400 ms in runPulseTest, strobeDelay = 100 ms in executeStrobeCommand.
TestAwaited(t) ==
  /\ t \in tests
  /\ t.test \in {"pulse", "strobe"}
  /\ t.pc = "await"
  /\ Awaited(t.item)
  /\ \A p \in pulses : (p.caller = "test" /\ p.item = t.item) => p.pc # "flash"
  /\ tests' = (tests \ {t}) \cup
                { [t EXCEPT !.pc = "sleep",
                            !.left = IF t.test = "strobe" THEN 100 ELSE 400] }
  /\ UNCHANGED << adminVars, sceneVars, request, isTestRunning, pulses, syncVars,
                  selectionVars, connectionVars, client, devices, queue, processing,
                  sinceLastExecution, loops, inflight, settled, failed, started,
                  lastExec, dispatches, nextId, clock >>

\* The sleep of run `t` is over: the next round of the loop (of 5 rounds in
\* runPulseTest, which looks at isTestRunning, of strobeCount = 10 rounds in
\* executeStrobeCommand, which does not), or the loop is left, the run
\* returns and testLights finally resets isTestRunning.
TestSleepDone(t) ==
  /\ t \in tests
  /\ t.test \in {"pulse", "strobe"}
  /\ t.pc = "sleep"
  /\ t.left = 0
  /\ LET i == t.i + 1
         round == IF t.test = "strobe" THEN i < 10 ELSE i < 5 /\ isTestRunning
         st0 == [sv |-> Service, pulses |-> pulses]
         st == IF round THEN TestRoundOn(st0, t.test, i) ELSE st0
     IN /\ CommitService(st.sv)
        /\ pulses' = st.pulses
        /\ tests' = (tests \ {t}) \cup
                      (IF round THEN { TestAwait(st.sv, t.test, i) } ELSE {})
        /\ isTestRunning' = IF round THEN isTestRunning ELSE FALSE
  /\ UNCHANGED << adminVars, sceneVars, request, syncVars >>

\* Math.min(maxBrightness, Math.max(baseBrightness, baseBrightness +
\* (maxBrightness - baseBrightness) * intensity * effectIntensity)), with the
\* intensity in percent.
TargetBrightness(intensity) ==
  Min(100, Max(30, 30 + ((100 - 30) * intensity * syncSettings.effectIntensity) \div 10000))

\* The beat events the frontend sends: {intensity, confidence}, in percent.
Beats == { [intensity |-> 100, confidence |-> 90],
           [intensity |-> 100, confidence |-> 50] }

\* The PULSE command of handleBeatDetection.
BeatPulse(data) ==
  LightCommand("PULSE", None, Some(TargetBrightness(data.intensity)), TRUE, Some(150))

\* SyncEngine.handleBeatDetection up to its await of executeCommand; when
\* executePulseCommand returns without awaiting the queue the handler goes
\* on to set lastBeatUpdate at once.
HandleBeatDetection(data) ==
  LET accepted == /\ ~(data.confidence < syncSettings.beatDetectionThreshold)
                  /\ sinceLastBeatUpdate >= beatUpdateInterval
      st0 == [sv |-> Service, pulses |-> pulses]
      st == IF accepted THEN ExecuteCommandOn(st0, BeatPulse(data), "beat") ELSE st0
  IN /\ CommitService(st.sv)
     /\ pulses' = st.pulses
     /\ sinceLastBeatUpdate' =
          IF accepted /\ st.pulses = pulses THEN 0 ELSE sinceLastBeatUpdate
     /\ request' = Some(Request("handleBeatDetection", "", BeatPulse(data), ~accepted, st.sv))
     /\ UNCHANGED << adminVars, sceneVars, isTestRunning, tests, frameVars >>

\* The updateLights that pulse `p` awaits returns: the return is scheduled,
\* if asked for, and executeCommand returns to its caller; handleBeatDetection
\* then sets lastBeatUpdate to the time it had read when it began.
PulseFlashed(p) ==
  /\ p \in pulses
  /\ p.pc = "flash"
  /\ Awaited(p.item)
  /\ pulses' = (pulses \ {p}) \cup
                 { [p EXCEPT !.pc = IF p.returnToPrevious THEN "timer" ELSE "returned"] }
  /\ sinceLastBeatUpdate' = IF p.caller = "beat" THEN p.age ELSE sinceLastBeatUpdate
  /\ UNCHANGED << adminVars, frameVars >>
  /\ UNCHANGED << adminVars, sceneVars, request, isTestRunning, tests, selectionVars, connectionVars, client,
                  devices, queue, processing, sinceLastExecution, loops, inflight,
                  settled, failed, started, lastExec, dispatches, nextId, clock >>

\* The timer of pulse `p` fires: updateLights({brightness: originalBrightness}).
PulseReturn(p) ==
  /\ p \in pulses
  /\ p.pc = "timer"
  /\ p.left = 0
  /\ LET sv == UpdateLightsOn(Service, LightUpdate(None, None, Some(p.originalBrightness)))
     IN /\ CommitService(sv)
        /\ pulses' = (pulses \ {p}) \cup
                       { [p EXCEPT !.pc = "returned",
                                   !.back = IF sv.nextId = nextId THEN 0 ELSE nextId] }
  /\ UNCHANGED << adminVars, sceneVars, request, isTestRunning, tests, syncVars >>

(* ------------------------ the connection to the hub ---------------------- *)

\* let token = config.accessToken; if (!token) token = the token file
TokenOf(cfg, file) ==
  IF Defined(Val(cfg).accessToken) THEN Val(cfg).accessToken ELSE file

\* A run of initialize, authenticateWithButton or the liveness probe at its
\* await `pc`, with the token it connects with.
Connect(kind, pc, token, reinit) ==
  [kind |-> kind, pc |-> pc, token |-> token, reinit |-> reinit,
   n |-> CHOOSE i \in 1..(Cardinality(connects) + 1) : \A c \in connects : c.n # i]

\* new DirigeraService(config, logger): loadSelection, then initialize up to
\* its await of createDirigeraClient; without a token it leaves the service
\* disconnected.
Construct(accessToken, file) ==
  /\ config = None
  /\ config' = Some([accessToken |-> accessToken])
  /\ tokenFile' = file
  /\ loadedSelection' = ConnectionReport.selection
  /\ selectedDeviceIds' = ConnectionReport.selection
  /\ selectionFile' = Some(ConnectionReport.selection)
  /\ LET token == IF Defined(accessToken) THEN accessToken ELSE file
     IN /\ lastToken' = token
        /\ connects' = IF Defined(token)
                       THEN connects \cup { Connect("initialize", "client", Val(token), FALSE) }
                       ELSE connects
  /\ isConnected' = FALSE
  /\ UNCHANGED << healthCheckInterval, healthTimers, lastProbe, client, devices, queue,
                  processing, sinceLastExecution, loops, inflight, settled, failed,
                  started, lastExec, dispatches, nextId, clock, outerVars >>

\* createDirigeraClient answers run `c` of initialize or
\* authenticateWithButton: this.client is set and discoverDevices awaits the
\* list of the hub, or the run ends in its catch.
ClientCreated(c, ok) ==
  /\ c \in connects
  /\ c.pc = "client"
  /\ client' = IF ok THEN "ready" ELSE client
  /\ connects' = IF ok THEN (connects \ {c}) \cup { [c EXCEPT !.pc = "discover"] }
                 ELSE connects \ {c}
  /\ UNCHANGED << selectionVars, config, tokenFile, isConnected, healthCheckInterval,
                  healthTimers, lastToken, lastProbe, devices, queue, processing,
                  sinceLastExecution, loops, inflight, settled, failed, started,
                  lastExec, dispatches, nextId, clock, outerVars >>

\* client.lights.list() answers the discoverDevices of run `c`: the listed
\* fixtures are entered into the registry, the service is connected, and
\* initialize starts the health check; or the run ends in its catch.
Discovered(c, ok, listed) ==
  /\ c \in connects
  /\ c.pc = "discover"
  /\ connects' = connects \ {c}
  /\ IF ok
     THEN /\ devices' = DiscoverDevices(listed, ConnectionReport, Dev,
                                        selectedDeviceIds, devices)
          /\ selectedDeviceIds' = DiscoverSelection(listed, selectedDeviceIds)
          /\ selectionFile' = SaveFirstSelection(DiscoverSelection(listed, selectedDeviceIds),
                                                 selectionFile)
          /\ isConnected' = TRUE
          /\ lastProbe' = { [k EXCEPT !.reconnected = TRUE] : k \in lastProbe }
          /\ IF c.kind = "initialize"
             THEN LET hc == StartConnectionHealthCheck(
                              [healthCheckInterval |-> healthCheckInterval,
                               healthTimers |-> healthTimers])
                  IN /\ healthCheckInterval' = hc.healthCheckInterval
                     /\ healthTimers' = hc.healthTimers
             ELSE UNCHANGED << healthCheckInterval, healthTimers >>
     ELSE UNCHANGED << devices, selectedDeviceIds, selectionFile, isConnected, lastProbe,
                       healthCheckInterval, healthTimers >>
  /\ UNCHANGED << loadedSelection, config, tokenFile, lastToken, client, queue,
                  processing, sinceLastExecution, loops, inflight, settled, failed,
                  started, lastExec, dispatches, nextId, clock, outerVars >>

\* The health check interval `h` fires: without a client the callback
\* returns, with one it awaits client.home().
ProbeFire(h) ==
  /\ h \in healthTimers
  /\ connects' = IF client = "null" THEN connects
                 ELSE connects \cup { Connect("probe", "home", "", FALSE) }
  /\ UNCHANGED << selectionVars, config, tokenFile, isConnected, healthCheckInterval,
                  healthTimers, lastToken, lastProbe, client, devices, queue, processing,
                  sinceLastExecution, loops, inflight, settled, failed, started,
                  lastExec, dispatches, nextId, clock, outerVars >>

\* client.home() answers probe `c`; when it fails the service is marked
\* disconnected and initialize(this.config) runs up to its first await.
ProbeAnswered(c, ok) ==
  /\ c \in connects
  /\ c.pc = "home"
  /\ IF ok
     THEN /\ connects' = connects \ {c}
          /\ UNCHANGED << isConnected, lastProbe >>
     ELSE LET token == TokenOf(config, tokenFile)
          IN /\ isConnected' = FALSE
             /\ connects' =
                  (connects \ {c}) \cup
                  (IF Defined(token)
                   THEN { [c EXCEPT !.kind = "initialize", !.pc = "client",
                                    !.token = Val(token), !.reinit = TRUE] }
                   ELSE {})
             /\ lastProbe' = Some([token |-> token, known |-> lastToken,
                                   registered |-> DOMAIN devices,
                                   reconnected |-> FALSE])
  /\ UNCHANGED << selectionVars, config, tokenFile, healthCheckInterval, healthTimers,
                  lastToken, client, devices, queue, processing, sinceLastExecution,
                  loops, inflight, settled, failed, started, lastExec, dispatches,
                  nextId, clock, outerVars >>

\* POST /api/lights/authenticate: authenticateWithButton up to its first
\* await.
Authenticate ==
  /\ config # None
  /\ connects' = connects \cup { Connect("authenticate", "auth", "", FALSE) }
  /\ UNCHANGED << selectionVars, config, tokenFile, isConnected, healthCheckInterval,
                  healthTimers, lastToken, lastProbe, client, devices, queue, processing,
                  sinceLastExecution, loops, inflight, settled, failed, started,
                  lastExec, dispatches, nextId, clock, outerVars >>

\* The temporary client answers run `c` of authenticateWithButton: the button
\* was pressed and the token is saved, and the run awaits
\* createDirigeraClient with it; or the run throws.
Authenticated(c, ok) ==
  /\ c \in connects
  /\ c.pc = "auth"
  /\ connects' = IF ok THEN (connects \ {c}) \cup
                              { [c EXCEPT !.pc = "client", !.token = "button"] }
                 ELSE connects \ {c}
  /\ tokenFile' = IF ok THEN Some("button") ELSE tokenFile
  /\ lastToken' = IF ok THEN Some("button") ELSE lastToken
  /\ UNCHANGED << selectionVars, config, isConnected, healthCheckInterval, healthTimers,
                  lastProbe, client, devices, queue, processing, sinceLastExecution,
                  loops, inflight, settled, failed, started, lastExec, dispatches,
                  nextId, clock, outerVars >>

(* ------------------ SyncEngine: the section effects --------------------- *)

\* The section types that have an effect.
SectionTypes == {"DROP", "BUILD", "BREAKDOWN", "CHORUS"}

\* The rounds of the loop of an effect, and the sleep after each round.
Steps(type) == IF type = "DROP" THEN 12 ELSE IF type = "BUILD" THEN 21 ELSE 1
StepDelay(type) == IF type = "DROP" THEN 80 ELSE 150

\* The update of round `i` of an effect, with the saturation in percent. In
\* the BUILD ramp progress = i / 20: the hue 200 + 160 * progress and the
\* saturation 0.4 + 0.6 * progress are whole numbers, the brightness
\* 30 + 70 * progress is rounded as the hub call rounds it.
SectionUpdate(type, i) ==
  CASE type = "DROP" ->
         LightUpdate(None, Some([hue |-> (i * 30) % 360, saturation |-> 100]),
                     Some(IF i % 2 = 0 THEN 100 ELSE 20))
    [] type = "BUILD" ->
         LightUpdate(None, Some([hue |-> 200 + (160 * i) \div 20,
                                 saturation |-> 40 + (60 * i) \div 20]),
                     Some((2 * 30 + (2 * 70 * i) \div 20 + 1) \div 2))
    [] type = "BREAKDOWN" ->
         LightUpdate(None, Some([hue |-> 220, saturation |-> 30]), Some(15))
    [] type = "CHORUS" ->
         LightUpdate(None, Some([hue |-> 60, saturation |-> 90]), Some(85))

\* A run of an effect waiting in round `i` for the updateLights called on the
\* service state `sv`.
SectionAwait(sv, type, i) ==
  [type |-> type, i |-> i, pc |-> "await", left |-> 0,
   item |-> IF sv.nextId = nextId THEN 0 ELSE nextId]

\* What the section effects leave alone outside the service.
SectionStep ==
  UNCHANGED << sceneVars, request, isTestRunning, tests, pulses, syncVars,
               lastSelection, settingsVars, load, observerVars, detectorVars,
               colorVars, socketVars >>

\* handleSongSection: the effect of the section runs up to its first await.
HandleSongSection(type) ==
  LET sv == UpdateLightsOn(Service, SectionUpdate(type, 0))
  IN /\ CommitService(sv)
     /\ sections' = sections \cup { SectionAwait(sv, type, 0) }
     /\ SectionStep

\* The updateLights that run `s` awaits returns: DROP and BUILD go to sleep,
\* BREAKDOWN and CHORUS return.
SectionAwaited(s) ==
  /\ s \in sections
  /\ s.pc = "await"
  /\ Awaited(s.item)
  /\ sections' = (sections \ {s}) \cup
                    (IF s.type \in {"DROP", "BUILD"}
                     THEN { [s EXCEPT !.pc = "sleep", !.left = StepDelay(s.type)] }
                     ELSE {})
  /\ SectionStep
  /\ UNCHANGED << selectionVars, connectionVars, client, devices, queue, processing,
                  sinceLastExecution, loops, inflight, settled, failed, started,
                  lastExec, dispatches, nextId, clock >>

\* The sleep of run `s` is over: the next round of the loop, or the return.
SectionSleepDone(s) ==
  /\ s \in sections
  /\ s.pc = "sleep"
  /\ s.left = 0
  /\ LET i == s.i + 1
         round == i < Steps(s.type)
         sv == IF round THEN UpdateLightsOn(Service, SectionUpdate(s.type, i))
               ELSE Service
     IN /\ CommitService(sv)
        /\ sections' = (sections \ {s}) \cup
                         (IF round THEN { SectionAwait(sv, s.type, i) } ELSE {})
  /\ SectionStep

\* `ms` milliseconds pass, for the queue and for the sleeps of the effects.
SectionElapse(ms) ==
  /\ Tick(ms)
  /\ sections' = { [s EXCEPT !.left = Max(@ - ms, 0)] : s \in sections }
  /\ SectionStep

(* ----------------------- the WebSocket client --------------------------- *)

\* What the client leaves alone.
SocketStep ==
  UNCHANGED << selectionVars, connectionVars, client, devices, queue, processing,
               sinceLastExecution, loops, inflight, settled, failed, started,
               lastExec, dispatches, nextId, clock, sceneVars, request,
               isTestRunning, tests, pulses, syncVars, lastSelection, settingsVars,
               load, observerVars, detectorVars, colorVars, sectionVars >>

\* The codes of a close that the client did not ask for: a clean close by
\* the server, and a lost connection.
CloseCodes == {1000, 1006}

\* A queue that takes every message.
HasRoom_Always(q) == TRUE

\* this.messageQueue.length < 100
HasRoom(q) == Len(q) < maxQueueLength

\* queueMessage: the message is pushed, after a shift when the queue is full.
QueueMessage(q, message) ==
  IF HasRoom(q) THEN Append(q, message) ELSE Append(Tail(q), message)

\* this.isConnected && this.ws && this.ws.readyState === WebSocket.OPEN
CanSend(connected, socket, state) == connected /\ socket = "set" /\ state = "OPEN"

\* send(message, queue) on the queue q and the messages `wire` written to the
\* socket: ws.send on an open socket does not throw.
SendOn(out, message, open, canQueue) ==
  IF open THEN [out EXCEPT !.wire = Append(@, message)]
  ELSE IF canQueue THEN [out EXCEPT !.queue = QueueMessage(@, message)]
  ELSE out

\* flushMessageQueue: while the queue is not empty and the client is
\* connected, the head is shifted and sent without being queued again.
RECURSIVE FlushMessageQueue(_, _, _)
FlushMessageQueue(out, connected, open) ==
  IF out.queue = << >> \/ ~connected THEN out
  ELSE FlushMessageQueue(SendOn([out EXCEPT !.queue = Tail(@)], Head(out.queue),
                                open, FALSE),
                         connected, open)

\* A delay that grows by reconnectDelay with every attempt.
ReconnectDelay_Linear(attempts) == Min(reconnectDelay * attempts, maxReconnectDelay)

\* Math.min(this.reconnectDelay * Math.pow(2, this.reconnectAttempts - 1),
\*          this.maxReconnectDelay)
ReconnectDelay(attempts) ==
  Min(reconnectDelay * 2 ^ (attempts - 1), maxReconnectDelay)

\* A disconnect that leaves the attempt counter as it is.
PreventReconnection_Skipped(attempts) == attempts

\* this.reconnectAttempts = this.maxReconnectAttempts; // Prevent reconnection
PreventReconnection(attempts) == maxReconnectAttempts

\* scheduleReconnect: the attempt counter and the timer after it.
ScheduleReconnect(attempts, timer) ==
  IF attempts >= maxReconnectAttempts
  THEN [reconnectAttempts |-> attempts, reconnectTimer |-> timer, scheduled |-> FALSE]
  ELSE [reconnectAttempts |-> attempts + 1,
        reconnectTimer |-> Some([delay |-> ReconnectDelay(attempts + 1),
                                 pending |-> TRUE]),
        scheduled |-> TRUE]

\* connect(): this.ws = new WebSocket(this.url)
ConnectSocket ==
  /\ ws' = "set"
  /\ readyState' = "CONNECTING"
  /\ closeCode' = None

\* new WebSocketClient(url): the constructor connects.
NewClient ==
  /\ readyState = "NONE"
  /\ ~disconnectCalled
  /\ ConnectSocket
  /\ lastStep' = None
  /\ UNCHANGED << wsConnected, reconnectAttempts, reconnectTimer, heartbeatTimer,
                  messageQueue, nextMessage, scheduledSinceOpen, disconnectCalled >>
  /\ SocketStep

\* The socket opens: handleOpen resets the attempt counter, clears the
\* reconnect timer, flushes the message queue and starts the heartbeat.
SocketOpens ==
  /\ readyState = "CONNECTING"
  /\ readyState' = "OPEN"
  /\ wsConnected' = TRUE
  /\ reconnectAttempts' = 0
  /\ reconnectTimer' = None
  /\ LET out == FlushMessageQueue([queue |-> messageQueue, wire |-> << >>], TRUE,
                                  CanSend(TRUE, ws, "OPEN"))
     IN /\ messageQueue' = out.queue
        /\ lastStep' = Some([op |-> "open", message |-> 0, open |-> TRUE,
                             queued |-> messageQueue, wire |-> out.wire])
  /\ heartbeatTimer' = TRUE
  /\ scheduledSinceOpen' = 0
  /\ UNCHANGED << ws, closeCode, nextMessage, disconnectCalled >>
  /\ SocketStep

\* The connection fails or is lost (code 1006), or the server closes it
\* (code 1000): the socket is no longer open, its close event is to come.
SocketClosing(code) ==
  /\ \/ readyState = "OPEN"
     \/ readyState = "CONNECTING" /\ code = 1006
  /\ readyState' = "CLOSING"
  /\ closeCode' = Some(code)
  /\ lastStep' = None
  /\ UNCHANGED << ws, wsConnected, reconnectAttempts, reconnectTimer, heartbeatTimer,
                  messageQueue, nextMessage, scheduledSinceOpen, disconnectCalled >>
  /\ SocketStep

\* The close event of the socket: handleClose stops the heartbeat and, unless
\* the close was a clean one, schedules a reconnect.
SocketClosed ==
  /\ readyState = "CLOSING"
  /\ readyState' = "CLOSED"
  /\ closeCode' = None
  /\ wsConnected' = FALSE
  /\ heartbeatTimer' = FALSE
  /\ LET after == IF Val(closeCode) # 1000
                  THEN ScheduleReconnect(reconnectAttempts, reconnectTimer)
                  ELSE [reconnectAttempts |-> reconnectAttempts,
                        reconnectTimer |-> reconnectTimer, scheduled |-> FALSE]
     IN /\ reconnectAttempts' = after.reconnectAttempts
        /\ reconnectTimer' = after.reconnectTimer
        /\ scheduledSinceOpen' = IF after.scheduled THEN scheduledSinceOpen + 1
                                 ELSE scheduledSinceOpen
  /\ lastStep' = None
  /\ UNCHANGED << ws, messageQueue, nextMessage, disconnectCalled >>
  /\ SocketStep

\* The reconnect timer fires: connect().
ReconnectTimerFires ==
  /\ \E t \in reconnectTimer :
       /\ t.pending
       /\ reconnectTimer' = Some([t EXCEPT !.pending = FALSE])
  /\ ConnectSocket
  /\ lastStep' = None
  /\ UNCHANGED << wsConnected, reconnectAttempts, heartbeatTimer, messageQueue,
                  nextMessage, scheduledSinceOpen, disconnectCalled >>
  /\ SocketStep

\* send(message): the message is written to the socket, or queued.
Send ==
  LET open == CanSend(wsConnected, ws, readyState)
      out == SendOn([queue |-> messageQueue, wire |-> << >>], nextMessage, open, TRUE)
  IN /\ messageQueue' = out.queue
     /\ nextMessage' = nextMessage + 1
     /\ lastStep' = Some([op |-> "send", message |-> nextMessage, open |-> open,
                          queued |-> messageQueue, wire |-> out.wire])
     /\ UNCHANGED << ws, readyState, closeCode, wsConnected, reconnectAttempts,
                     reconnectTimer, heartbeatTimer, scheduledSinceOpen,
                     disconnectCalled >>
     /\ SocketStep

\* The heartbeat interval fires: if (this.isConnected) this.send(PING).
Heartbeat ==
  /\ heartbeatTimer
  /\ wsConnected
  /\ Send

\* disconnect(), and destroy(), which also empties the message queue.
Disconnect(destroy) ==
  /\ reconnectTimer' = None
  /\ heartbeatTimer' = FALSE
  /\ IF ws = "set" /\ readyState \in {"CONNECTING", "OPEN"}
     THEN /\ readyState' = "CLOSING"
          /\ closeCode' = Some(IF readyState = "OPEN" THEN 1000 ELSE 1006)
     ELSE UNCHANGED << readyState, closeCode >>
  /\ ws' = "null"
  /\ wsConnected' = FALSE
  /\ reconnectAttempts' = PreventReconnection(reconnectAttempts)
  /\ messageQueue' = IF destroy THEN << >> ELSE messageQueue
  /\ disconnectCalled' = TRUE
  /\ lastStep' = None
  /\ UNCHANGED << nextMessage, scheduledSinceOpen >>
  /\ SocketStep

(* ------------------- SceneEngine: the color functions ------------------- *)

\* The state the color functions leave alone.
ColorStep ==
  UNCHANGED << selectionVars, connectionVars, client, devices, queue, processing,
               sinceLastExecution, loops, inflight, settled, failed, started,
               lastExec, dispatches, nextId, clock, sceneVars, request,
               isTestRunning, tests, pulses, syncVars, lastSelection, settingsVars,
               load, observerVars, detectorVars, restVars >>

\* Palette hues, in degrees, and saturations, in percent.
PaletteHues == {0, 10, 170, 180, 190, 350}
PaletteSaturations == {40, 90}

\* Interpolation factors, in tenths.
Factors == 0..10

\* An interpolation that does not look for the shorter arc.
ShorterArc_Direct(h1, h2) == h2

\* if (diff > 180) h2 -= 360; else if (diff < -180) h2 += 360
ShorterArc(h1, h2) ==
  LET diff == h2 - h1
  IN IF diff > 180 THEN h2 - 360
     ELSE IF diff < -180 THEN h2 + 360
     ELSE h2

\* if (h < 0) h += 360; if (h >= 360) h -= 360
WrapHue(h) ==
  LET raised == IF h < 0 THEN h + 360 ELSE h
  IN IF raised >= 360 THEN raised - 360 ELSE raised

\* interpolateColors, with the factor in tenths: for hues that are multiples
\* of ten degrees the result is a whole number of degrees.
InterpolateColors(c1, c2, factor) ==
  LET h1 == c1.hue
      h2 == ShorterArc(c1.hue, c2.hue)
  IN [hue |-> WrapHue(h1 + ((h2 - h1) * factor) \div 10),
      saturation |-> c1.saturation + ((c2.saturation - c1.saturation) * factor) \div 10]

\* interpolateColors is called.
Interpolate(c1, c2, factor) ==
  /\ lastInterpolation' = Some([c1 |-> c1, c2 |-> c2, factor |-> factor,
                                color |-> InterpolateColors(c1, c2, factor)])
  /\ UNCHANGED lastSpatial
  /\ ColorStep

(* --------------------------- BeatDetector.detect ------------------------- *)

\* The energies calculateEnergy returns for the frames: a quiet frame and a
\* spike.
Energies == {1, 10}

\* The time between two analysis frames, in ms.
FrameGaps == {50, 60}

RECURSIVE SumOf(_)
SumOf(values) ==
  IF values = << >> THEN 0 ELSE Head(values) + SumOf(Tail(values))

\* currentEnergy > averageEnergy + threshold * Math.sqrt(variance), with
\* threshold = 1.3 and variance = sum((value - mean)^2) / length: for the
\* sum S and the sum of squares Q of the n energies,
\* n * currentEnergy - S > 1.3 * sqrt(n * Q - S * S).
AboveThreshold(history, currentEnergy) ==
  LET n == Len(history)
      S == SumOf(history)
      Q == SumOf([i \in DOMAIN history |-> history[i] * history[i]])
  IN /\ n * currentEnergy - S > 0
     /\ 100 * (n * currentEnergy - S) * (n * currentEnergy - S) > 169 * (n * Q - S * S)

\* variance > energyVarianceThreshold = 0.02
Varied(history) ==
  LET n == Len(history)
      S == SumOf(history)
      Q == SumOf([i \in DOMAIN history |-> history[i] * history[i]])
  IN 100 * (n * Q - S * S) > 2 * n * n

\* A detector that lets a beat through at the minimum interval.
Refractory_AtInterval(since) == since >= minBeatInterval

\* now - this.lastBeatTime > this.minBeatInterval
Refractory(since) == since > minBeatInterval

\* The time `ms` after a time of `since`, as far as it is told apart.
Later(since, ms) == Min(since + ms, 2 * minBeatInterval)

\* detect() on a frame of energy `currentEnergy` that comes `ms` after the
\* frame before it: the energy is pushed onto the history, which is shifted
\* beyond historySize; with a full history, a beat is returned for an energy
\* above the adaptive threshold more than minBeatInterval after the last
\* beat.
Detect(currentEnergy, ms) ==
  LET pushed == Append(energyHistory, currentEnergy)
      history == IF Len(pushed) > beatHistorySize THEN Tail(pushed) ELSE pushed
      since == Later(sinceLastBeat, ms)
      spike == /\ ~(Len(history) < beatHistorySize)
               /\ AboveThreshold(history, currentEnergy)
               /\ Varied(history)
      beat == spike /\ Refractory(since)
      gap == IF lastDetect = None THEN 2 * minBeatInterval
             ELSE Later(Val(lastDetect).since, ms)
      frame == IF lastDetect = None THEN 1 ELSE Val(lastDetect).frame + 1
  IN /\ energyHistory' = history
     /\ sinceLastBeat' = IF beat THEN 0 ELSE since
     /\ lastDetect' = Some([frame |-> frame, samples |-> Len(history),
                            spike |-> spike, beat |-> beat, gap |-> gap,
                            since |-> IF beat THEN 0 ELSE gap,
                            beats |-> (IF lastDetect = None THEN 0
                                       ELSE Val(lastDetect).beats)
                                      + (IF beat THEN 1 ELSE 0)])
     /\ UNCHANGED << selectionVars, connectionVars, client, devices, queue, processing,
                     sinceLastExecution, loops, inflight, settled, failed, started,
                     lastExec, dispatches, nextId, clock, sceneVars, request,
                     isTestRunning, tests, pulses, syncVars, lastSelection,
                     settingsVars, load, observerVars, colorVars, restVars >>

\* The frames the analyzer has handed to the detector.
AnalysisFrames == IF lastDetect = None THEN 0 ELSE Val(lastDetect).frame

(* ------------------- the clients and their light stores ------------------ *)

\* The state a client holds of each device of the list `devs`.
StateOf(devs) == [d \in DOMAIN devs |-> devs[d].currentState]

\* The `updatedDevices` of updateLights: the devices it wrote to.
UpdatedDevices(devs, update) ==
  ChangeNotification({ <<d, a>> \in (DOMAIN devs) \X {"isOn", "color", "brightness"} :
                         a \in UpdateLightsAttrs(devs[d], update) })

\* broadcast of a DEVICE_UPDATE or DEVICES_UPDATE for the devices `ds`, on the
\* 'deviceUpdate' / 'devicesUpdate' event of the step: the message, with the
\* state the devices have after the step, is sent to every connected client.
Broadcast(type, ds) ==
  /\ channel' = [c \in DOMAIN channel |->
                   IF ds = {} THEN channel[c]
                   ELSE Append(channel[c],
                               [type |-> type,
                                data |-> [d \in ds |-> devices'[d].currentState]])]
  /\ UNCHANGED << sceneVars, request, isTestRunning, tests, pulses, syncVars,
                  unobservedVars, stores >>

\* updateDevice / updateDevices of the light store: { ...currentState,
\* ...update.currentState }, where the JSON of the update has no color key
\* when the color is undefined.
MergeState(currentState, update) ==
  [isOn |-> update.isOn, brightness |-> update.brightness,
   color |-> IF Defined(update.color) THEN update.color ELSE currentState.color]

\* Client `c` receives the broadcast at the head of its channel and applies
\* it to the devices its store knows.
Deliver(c) ==
  /\ c \in DOMAIN channel
  /\ channel[c] # << >>
  /\ LET message == Head(channel[c])
     IN stores' = [stores EXCEPT ![c] =
                     [d \in DOMAIN @ |->
                        IF d \in DOMAIN message.data
                        THEN MergeState(@[d], message.data[d]) ELSE @[d]]]
  /\ channel' = [channel EXCEPT ![c] = Tail(@)]
  /\ UNCHANGED << selectionVars, connectionVars, client, devices, queue, processing,
                  sinceLastExecution, loops, inflight, settled, failed, started,
                  lastExec, dispatches, nextId, clock, sceneVars, request,
                  isTestRunning, tests, pulses, syncVars, unobservedVars >>

\* Client `c` opens the application: GET /api/lights/discover runs
\* discoverDevices, for which the hub lists the devices `on` as powered on,
\* and answers with getDevices(), which the client stores; the client is
\* connected to the WebSocket server.  discoverDevices emits no event.
DiscoverRequest(c, on) ==
  /\ client = "ready"
  /\ c \notin DOMAIN stores
  /\ devices' = DiscoverDevices(DevOrder, ConnectionReport, on, selectedDeviceIds, devices)
  /\ selectedDeviceIds' = DiscoverSelection(DevOrder, selectedDeviceIds)
  /\ selectionFile' = SaveFirstSelection(DiscoverSelection(DevOrder, selectedDeviceIds),
                                         selectionFile)
  /\ stores' = [x \in DOMAIN stores \cup {c} |->
                  IF x = c THEN StateOf(devices') ELSE stores[x]]
  /\ channel' = [x \in DOMAIN channel \cup {c} |->
                   IF x = c THEN << >> ELSE channel[x]]
  /\ UNCHANGED << loadedSelection, connectionVars, client, queue, processing,
                  sinceLastExecution, loops, inflight, settled, failed, started,
                  lastExec, dispatches, nextId, clock, sceneVars, request,
                  isTestRunning, tests, pulses, syncVars, unobservedVars >>

(* ------------------ the load of a spatial scene on the queue ------------- *)

\* The service state and the frame conditions of the load actions.
LoadStep ==
  UNCHANGED << selectionVars, connectionVars, client, devices, queue, processing,
               sinceLastExecution, loops, inflight, settled, failed, started,
               lastExec, dispatches, nextId, clock, sceneVars, request,
               isTestRunning, tests, pulses, syncVars, lastSelection, settingsVars,
               observerVars, detectorVars, colorVars, restVars >>

\* startScene of a spatial scene with `fixtures` eligible fixtures, on an idle
\* queue: applySceneInitialState enqueues one updateLightsBatch and the
\* interval is set.
StartSpatialScene(fixtures) ==
  /\ load = None
  /\ load' = Some([fixtures |-> fixtures, pending |-> 1, sinceTick |-> 0,
                   sinceLastExecution |-> minInterval, ticks |-> 0,
                   found |-> 0, foundBefore |-> 0])
  /\ LoadStep

\* The interval fires: spatialLoop calls updateSingleLight for every eligible
\* fixture, and each call adds one command to the queue.
SpatialLoop ==
  /\ \E l \in load :
       /\ ~(l.sinceTick < IntervalTime(ScenePresets["arctic-aurora"]))
       /\ l.ticks < MaxTicks
       /\ load' = Some([l EXCEPT !.pending = @ + l.fixtures, !.sinceTick = 0,
                                 !.ticks = @ + 1, !.found = l.pending,
                                 !.foundBefore = l.found])
  /\ LoadStep

\* CommandQueue.process when minInterval has passed since the last execution:
\* a command is shifted and executed, here by a hub that answers at once.
ProcessOne ==
  /\ \E l \in load :
       /\ l.pending > 0
       /\ ~(l.sinceLastExecution < minInterval)
       /\ load' = Some([l EXCEPT !.pending = @ - 1, !.sinceLastExecution = 0])
  /\ LoadStep

\* minInterval milliseconds pass, once the timers that are due have fired.
LoadElapse ==
  /\ \E l \in load :
       /\ l.sinceTick < IntervalTime(ScenePresets["arctic-aurora"])
       /\ l.pending > 0 => l.sinceLastExecution < minInterval
       /\ load' = Some([l EXCEPT !.sinceTick = @ + minInterval,
                                 !.sinceLastExecution = Min(@ + minInterval, minInterval)])
  /\ LoadStep

(* --------------------------- the sync settings --------------------------- *)

\* A Partial<SyncSettings> that sets one field.
SettingsUpdate(field, value) ==
  [f \in {"sensitivity", "colorMode", "effectIntensity", "beatDetectionThreshold"} |->
     IF f = field THEN Some(value) ELSE None]

\* The settings updates the clients send, with the numbers in percent.
SettingsUpdates ==
  { SettingsUpdate("sensitivity", 30), SettingsUpdate("sensitivity", 150),
    SettingsUpdate("colorMode", "mood"), SettingsUpdate("colorMode", "disco"),
    SettingsUpdate("effectIntensity", 100), SettingsUpdate("effectIntensity", 250),
    SettingsUpdate("beatDetectionThreshold", 40),
    SettingsUpdate("beatDetectionThreshold", 200) }

\* The validation of PUT /api/lights/sync-settings.
ValidSettingsUpdate(settings) ==
  /\ \A v \in settings.sensitivity : ~(v < 0 \/ v > 100)
  /\ \A v \in settings.colorMode : v \in {"frequency", "mood", "random"}
  /\ \A v \in settings.effectIntensity : ~(v < 0 \/ v > 100)
  /\ \A v \in settings.beatDetectionThreshold : ~(v < 0 \/ v > 100)

\* SyncEngine.updateSettings: { ...this.syncSettings, ...settings }
UpdateSettings(current, settings) ==
  [f \in DOMAIN current |->
     IF Defined(settings[f]) THEN Val(settings[f]) ELSE current[f]]

\* PUT /api/lights/sync-settings
UpdateSyncSettings(settings) ==
  /\ syncSettings' = IF ValidSettingsUpdate(settings)
                     THEN UpdateSettings(syncSettings, settings) ELSE syncSettings
  /\ lastSettings' = Some([channel |-> "rest", settings |-> settings,
                           rejected |-> ~ValidSettingsUpdate(settings),
                           before |-> syncSettings])
  /\ UNCHANGED << selectionVars, connectionVars, client, devices, queue, processing,
                  sinceLastExecution, loops, inflight, settled, failed, started,
                  lastExec, dispatches, nextId, clock, sceneVars, request,
                  isTestRunning, tests, pulses, syncVars, lastSelection, load,
                  observerVars, detectorVars, colorVars, restVars >>

\* The SETTINGS_UPDATE message of a WebSocket client.
SettingsUpdateMessage(settings) ==
  /\ syncSettings' = UpdateSettings(syncSettings, settings)
  /\ lastSettings' = Some([channel |-> "websocket", settings |-> settings,
                           rejected |-> FALSE, before |-> syncSettings])
  /\ UNCHANGED << selectionVars, connectionVars, client, devices, queue, processing,
                  sinceLastExecution, loops, inflight, settled, failed, started,
                  lastExec, dispatches, nextId, clock, sceneVars, request,
                  isTestRunning, tests, pulses, syncVars, lastSelection, load,
                  observerVars, detectorVars, colorVars, restVars >>

(* ------------------------- the selection API ----------------------------- *)

\* The fields toggleDeviceSelection reads and writes, as one record.
Selection ==
  [devices |-> devices, selectedDeviceIds |-> selectedDeviceIds,
   selectionFile |-> selectionFile]

\* toggleDeviceSelection: for a registered device isSelected is set, the id
\* is added to or deleted from selectedDeviceIds, and saveSelection writes
\* the set to the file.
ToggleDeviceSelection(sel, deviceId, isSelected) ==
  IF deviceId \notin DOMAIN sel.devices THEN sel
  ELSE LET ids == IF isSelected THEN sel.selectedDeviceIds \cup {deviceId}
                  ELSE sel.selectedDeviceIds \ {deviceId}
       IN [devices |-> [sel.devices EXCEPT ![deviceId].isSelected = isSelected],
           selectedDeviceIds |-> ids,
           selectionFile |-> Some(ids)]

\* allDevices.forEach(device => toggleDeviceSelection(device.id,
\*                                 selectedLights.includes(device.id)))
RECURSIVE ToggleAll(_, _, _)
ToggleAll(sel, allDevices, selectedLights) ==
  IF allDevices = << >> THEN sel
  ELSE ToggleAll(ToggleDeviceSelection(sel, Head(allDevices),
                                       Head(allDevices) \in selectedLights),
                 Tail(allDevices), selectedLights)

\* PUT /api/lights/selection with the array selectedLights.
UpdateLightSelection(selectedLights) ==
  LET allDevices == SelectSeq(DevOrder, LAMBDA d : d \in DOMAIN devices)
      sel == ToggleAll(Selection, allDevices, selectedLights)
  IN /\ devices' = sel.devices
     /\ selectedDeviceIds' = sel.selectedDeviceIds
     /\ selectionFile' = sel.selectionFile
     /\ lastSelection' = Some([selectedLights |-> selectedLights,
                               registered |-> DOMAIN devices,
                               participated |-> { d \in DOMAIN devices :
                                                    devices[d].isSelected }])
     /\ UNCHANGED << loadedSelection, connectionVars, client, queue, processing,
                     sinceLastExecution, loops, inflight, settled, failed, started, lastExec, dispatches,
                     nextId, clock, sceneVars, request, isTestRunning, tests, pulses,
                     syncVars, settingsVars, load, observerVars, detectorVars, colorVars, restVars >>

(* ------------------- SyncEngine.handleFrequencyUpdate -------------------- *)

\* VIBRANT_COLORS, with the saturation in percent.
VIBRANT_COLORS ==
  << [hue |-> 0, saturation |-> 90], [hue |-> 30, saturation |-> 90],
     [hue |-> 60, saturation |-> 80], [hue |-> 120, saturation |-> 90],
     [hue |-> 180, saturation |-> 80], [hue |-> 240, saturation |-> 90],
     [hue |-> 270, saturation |-> 90], [hue |-> 300, saturation |-> 80] >>

\* mapFrequencyToColor in the default colorMode 'frequency':
\* VIBRANT_COLORS[(timeComponent + Math.floor(total * 50)) % length].
MapFrequencyToColor(data, timeComponent) ==
  LET total == data.bass + data.mids + data.treble
      audioComponent == (total * 50) \div 100
  IN VIBRANT_COLORS[((timeComponent + audioComponent) % Len(VIBRANT_COLORS)) + 1]

\* AnalysisState.smoothColor: the color is pushed onto the history, which is
\* shifted when it exceeds historySize.  Both callers drop the weighted
\* average it returns.
SmoothColor(history, newColor) ==
  LET pushed == Append(history, newColor)
  IN IF Len(pushed) > historySize THEN Tail(pushed) ELSE pushed

\* Math.cos(hue * Math.PI / 180) in thousandths, for the hues of
\* VIBRANT_COLORS.
Cos(hue) ==
  CASE hue = 0 -> 1000 [] hue = 30 -> 866 [] hue = 60 -> 500 [] hue = 120 -> -500
    [] hue = 180 -> -1000 [] hue = 240 -> -500 [] hue = 270 -> 0 [] hue = 300 -> 500

\* The sum of values[index] * (index + 1) over the history (index from 0):
\* the weights (index + 1) / length, times the length.
RECURSIVE Weighted(_)
Weighted(values) ==
  IF values = << >> THEN 0
  ELSE Weighted(SubSeq(values, 1, Len(values) - 1))
       + values[Len(values)] * Len(values)

\* What AnalysisState.smoothColor returns for the history it has just
\* pushed onto: the new color when it is alone, else the hue
\* atan2(0, totalHue / totalWeight) in degrees, which is 180 for a negative
\* weighted cosine and 0 otherwise, and the weighted mean of the saturations
\* as the fraction num / den of percents (a mean of values in [0, 1] needs
\* no clamping).
SmoothedColor(history) ==
  IF Len(history) = 1
  THEN [hue |-> history[1].hue, num |-> history[1].saturation, den |-> 1]
  ELSE [hue |-> IF Weighted([i \in DOMAIN history |-> Cos(history[i].hue)]) < 0
                THEN 180 ELSE 0,
        num |-> Weighted([i \in DOMAIN history |-> history[i].saturation]),
        den |-> Weighted([i \in DOMAIN history |-> 1])]

\* A handler that does not move lastLightUpdate.
Stamp_Kept(since) == since

\* this.lastLightUpdate = now: no time has passed since.
Stamp(since) == 0

\* The time since a frame was last accepted, up to lightUpdateInterval.
SinceLastFrame(fs) ==
  LET ages == { f.age : f \in fs }
  IN IF ages = {} THEN lightUpdateInterval
     ELSE CHOOSE a \in ages : \A b \in ages : a <= b

\* Math.round(minBrightness + (band * (maxBrightness - minBrightness))), with
\* the band in percent.
BandBrightness(band) == 40 + (band * (85 - 40) + 50) \div 100

\* createAlternatingPattern, the pattern of patternIndex 0: the update of the
\* device at `index` (from 0).  The other three patterns differ from it in
\* the colors and brightness values they hand out, not in the calls they make.
PatternUpdate(deviceId, index, data) ==
  LET bassColor == [hue |-> 0, saturation |-> 90]
      trebleColor == [hue |-> 240, saturation |-> 90]
  IN IF index % 2 = 0
     THEN DeviceUpdate(deviceId, Some(bassColor), Some(BandBrightness(data.bass)))
     ELSE DeviceUpdate(deviceId, Some(trebleColor), Some(BandBrightness(data.treble)))

\* refreshDeviceStates: the cached state of every listed device is
\* overwritten with what the hub lists; isSelected is kept.
RefreshDeviceStates(devs, listing) ==
  [d \in DOMAIN devs |->
     [devs[d] EXCEPT !.currentState.isOn = d \in listing.on,
                     !.currentState.brightness = listing.lightLevel[d]]]

\* getDevices().filter(d => d.currentState.isOn && d.capabilities.canChangeColor)
PatternDevices(devs) ==
  SelectSeq(DevOrder, LAMBDA d : /\ d \in DOMAIN devs
                                 /\ devs[d].currentState.isOn
                                 /\ devs[d].capabilities.canChangeColor)

\* executePatternUpdates from the update it has reached: the calls of
\* updateSingleLight up to the first one that enqueues a queue item, which
\* the loop awaits (item 0: the loop is over).
RECURSIVE ExecutePatternUpdates(_, _)
ExecutePatternUpdates(sv, updates) ==
  IF updates = << >> THEN [sv |-> sv, rest |-> << >>, item |-> 0]
  ELSE LET called == UpdateSingleLightOn(sv, Head(updates))
       IN IF called.nextId # sv.nextId
          THEN [sv |-> called, rest |-> Tail(updates), item |-> sv.nextId]
          ELSE ExecutePatternUpdates(sv, Tail(updates))

\* The run `f` of createLightPattern after the step `step` of its loop.
FrameAfter(f, step) ==
  [f EXCEPT !.pc = IF step.item = 0 THEN "done" ELSE "update",
            !.rest = step.rest,
            !.item = step.item,
            !.sent = @ + (IF step.item = 0 THEN 0 ELSE 1)]

\* handleFrequencyUpdate up to its first await: a frame within
\* lightUpdateInterval of the last accepted one is only smoothed; an accepted
\* one moves lastLightUpdate, is smoothed, and createLightPattern awaits
\* refreshDeviceStates (which returns at once without a client, and then
\* updateSingleLight throws or there is no device).
HandleFrequencyUpdate(data, timeComponent) ==
  LET color == MapFrequencyToColor(data, timeComponent)
      accepted == ~(sinceLastLightUpdate < lightUpdateInterval)
      run == [n |-> Cardinality(frames) + 1,
              pc |-> IF client = "ready" THEN "refresh" ELSE "done",
              data |-> data, rest |-> << >>, item |-> 0, sent |-> 0,
              gap |-> SinceLastFrame(frames), age |-> 0]
  IN /\ sinceLastLightUpdate' =
          IF accepted THEN Stamp(sinceLastLightUpdate) ELSE sinceLastLightUpdate
     /\ colorHistory' = SmoothColor(colorHistory, color)
     /\ frames' = IF accepted THEN frames \cup {run} ELSE frames
     /\ lastFrame' = Some([color |-> color, accepted |-> accepted,
                           gap |-> SinceLastFrame(frames),
                           before |-> colorHistory,
                           runs |-> Cardinality(frames)])
     /\ UNCHANGED << adminVars, sceneVars, request, isTestRunning, tests, pulses,
                     sinceLastBeatUpdate, selectionVars, connectionVars, client, devices, queue,
                     processing, sinceLastExecution, loops, inflight, settled, failed,
                     started, lastExec, dispatches, nextId, clock >>

\* client.lights.list() answers run `f`: the registry is refreshed and
\* executePatternUpdates runs up to its first await.
FrameRefreshed(f, listing) ==
  /\ f \in frames
  /\ f.pc = "refresh"
  /\ LET devs == RefreshDeviceStates(devices, listing)
         ds == PatternDevices(devs)
         updates == [i \in 1..Len(ds) |-> PatternUpdate(ds[i], i - 1, f.data)]
         step == ExecutePatternUpdates([Service EXCEPT !.devices = devs], updates)
     IN /\ CommitService(step.sv)
        /\ frames' = (frames \ {f}) \cup { FrameAfter(f, step) }
  /\ UNCHANGED << adminVars, sceneVars, request, isTestRunning, tests, pulses,
                  sinceLastBeatUpdate, sinceLastLightUpdate, colorHistory, lastFrame >>

\* The updateSingleLight that run `f` awaits returns: the loop goes on.
FrameAwaited(f) ==
  /\ f \in frames
  /\ f.pc = "update"
  /\ Awaited(f.item)
  /\ LET step == ExecutePatternUpdates(Service, f.rest)
     IN /\ CommitService(step.sv)
        /\ frames' = (frames \ {f}) \cup { FrameAfter(f, step) }
  /\ UNCHANGED << adminVars, sceneVars, request, isTestRunning, tests, pulses,
                  sinceLastBeatUpdate, sinceLastLightUpdate, colorHistory, lastFrame >>

\* `ms` milliseconds pass, for the queue and for the timers of the callers.
Elapse(ms) ==
  /\ Tick(ms)
  /\ tests' = { [t EXCEPT !.left = Max(@ - ms, 0)] : t \in tests }
  /\ pulses' = { [p EXCEPT !.left = IF p.pc = "timer" THEN Max(@ - ms, 0) ELSE @,
                             !.age = IF p.caller = "beat"
                                     THEN Min(@ + ms, beatUpdateInterval) ELSE @] :
                 p \in pulses }
  /\ sinceLastBeatUpdate' = Min(sinceLastBeatUpdate + ms, beatUpdateInterval)
  /\ sinceLastLightUpdate' = Min(sinceLastLightUpdate + ms, lightUpdateInterval)
  /\ frames' = { [f EXCEPT !.age = Min(@ + ms, lightUpdateInterval)] : f \in frames }
  /\ UNCHANGED << adminVars, sceneVars, request, isTestRunning, colorHistory, lastFrame >>

(* --------------------------- specifications ----------------------------- *)

\* The command queue under load: three producers enqueue onto one registry,
\* hub calls are fulfilled or rejected, time passes in steps of TickMs.
Next ==
  \/ Initialize(QueueReports, {Dev}) /\ UNCHANGED outerVars
  \/ \E u \in QueueLightUpdates : nextId <= MaxAdds /\ UpdateLights(u) /\ UNCHANGED outerVars
  \/ \E us \in BatchUpdates : nextId <= MaxAdds /\ UpdateLightsBatch(us) /\ UNCHANGED outerVars
  \/ \E u \in SingleUpdates : nextId <= MaxAdds /\ UpdateSingleLight(u) /\ UNCHANGED outerVars
  \/ \E li \in DOMAIN loops : SleepDone(li) /\ UNCHANGED outerVars
  \/ \E li \in DOMAIN loops : CommandDone(li) /\ UNCHANGED outerVars
  \/ \E c \in inflight, ok \in BOOLEAN : HubSettle(c, ok) /\ UNCHANGED outerVars
  \/ Tick(TickMs) /\ UNCHANGED outerVars

Spec == Init /\ [][Next]_vars

\* The event loop runs every ready continuation and timer, and time passes.
LoopFairness ==
  /\ WF_vars(Tick(TickMs) /\ UNCHANGED outerVars)
  /\ WF_vars(\E li \in DOMAIN loops : SleepDone(li) /\ UNCHANGED outerVars)
  /\ WF_vars(\E li \in DOMAIN loops : CommandDone(li) /\ UNCHANGED outerVars)

\* The hub answers every call.
HubFairness ==
  WF_vars(\E c \in inflight, ok \in BOOLEAN : HubSettle(c, ok) /\ UNCHANGED outerVars)

\* Spec with a hub whose calls all terminate.
LiveSpec == Init /\ [][Next]_vars /\ LoopFairness /\ HubFairness

\* Spec with a hub that may leave calls unanswered for ever.
HangSpec == Init /\ [][Next]_vars /\ LoopFairness

\* The registry under every discovery report, with hub pushes and every
\* kind of update; hub calls are fulfilled, time passes in steps of
\* minInterval.
RegistryNext ==
  \/ Initialize(HubReports, SUBSET Dev) /\ UNCHANGED outerVars
  \/ \E u \in LightUpdates : nextId <= MaxUpdates /\ UpdateLights(u) /\ UNCHANGED outerVars
  \/ \E us \in BatchUpdates : nextId <= MaxUpdates /\ UpdateLightsBatch(us) /\ UNCHANGED outerVars
  \/ \E u \in RegistrySingleUpdates : nextId <= MaxUpdates /\ UpdateSingleLight(u) /\ UNCHANGED outerVars
  \/ \E li \in DOMAIN loops : SleepDone(li) /\ UNCHANGED outerVars
  \/ \E li \in DOMAIN loops : CommandDone(li) /\ UNCHANGED outerVars
  \/ \E c \in inflight : HubSettle(c, TRUE) /\ UNCHANGED outerVars
  \/ \E d \in Dev, isOn \in BOOLEAN : HandleDeviceUpdate(d, isOn) /\ UNCHANGED outerVars
  \/ Tick(minInterval) /\ UNCHANGED outerVars

RegistrySpec == Init /\ [][RegistryNext]_vars

\* The scene engine driven through its API (start, stop, update) with its
\* interval firing at any time, on a registry with one eligible fixture.
SceneNext ==
  \/ Initialize(QueueReports, {Dev}) /\ UNCHANGED outerVars
  \/ \E id \in SceneIds \cup {"unknown"} : nextId <= MaxSceneItems /\ StartScene(id)
  \/ StopScene
  \/ \E id \in SceneIds \cup {"unknown"}, u \in SceneUpdates : UpdateScene(id, u)
  \/ \E t \in timers, picked \in {{}, Dev} : nextId <= MaxSceneItems /\ SceneTick(t, picked)
  \/ \E li \in DOMAIN loops : SleepDone(li) /\ UNCHANGED outerVars
  \/ \E li \in DOMAIN loops : CommandDone(li) /\ UNCHANGED outerVars
  \/ \E c \in inflight : HubSettle(c, TRUE) /\ UNCHANGED outerVars
  \/ Tick(Horizon) /\ UNCHANGED outerVars

SceneSpec == Init /\ [][SceneNext]_vars

\* Manual control through the API (update, command, test, stop-test) while a
\* scene may be running; the requests arrive once the service is connected.
ControlNext ==
  \/ Initialize(QueueReports, {Dev}) /\ UNCHANGED outerVars
  \/ client = "ready" /\ nextId <= MaxRequestItems /\ StartScene("savanna-sunset")
  \/ \E t \in timers : client = "ready" /\ nextId <= MaxRequestItems /\ SceneTick(t, Dev)
  \/ \E body \in UpdateBodies : client = "ready" /\ nextId <= MaxRequestItems /\ PostLightsUpdate(body)
  \/ \E command \in Commands : client = "ready" /\ nextId <= MaxRequestItems /\ PostLightsCommand(command)
  \/ \E testType \in TestTypes : client = "ready" /\ nextId <= MaxRequestItems /\ PostLightsTest(testType)
  \/ client = "ready" /\ nextId <= MaxRequestItems /\ PostLightsTestStop
  \/ \E t \in tests : RainbowAwaited(t)
  \/ \E t \in tests : client = "ready" /\ nextId <= MaxRequestItems /\ RainbowSleepDone(t)
  \/ \E p \in pulses : PulseFlashed(p)
  \/ \E p \in pulses : client = "ready" /\ nextId <= MaxRequestItems /\ PulseReturn(p)
  \/ \E li \in DOMAIN loops : SleepDone(li) /\ UNCHANGED outerVars
  \/ \E li \in DOMAIN loops : CommandDone(li) /\ UNCHANGED outerVars
  \/ \E c \in inflight : HubSettle(c, TRUE) /\ UNCHANGED outerVars
  \/ Elapse(Horizon)

ControlSpec == Init /\ [][ControlNext]_vars

\* The PULSE command of runPulseTest.
PulseCommands == { LightCommand("PULSE", None, Some(100), TRUE, Some(200)) }

\* Pulses from the API and from the beat events of the WebSocket clients,
\* whose async message handlers run as the messages arrive.
PulseNext ==
  \/ Initialize(PulseReports, {Dev}) /\ UNCHANGED outerVars
  \/ \E command \in PulseCommands :
       client = "ready" /\ nextId <= MaxPulseItems /\ PostLightsCommand(command)
  \/ \E data \in Beats :
       client = "ready" /\ nextId <= MaxPulseItems /\ HandleBeatDetection(data)
  \/ \E p \in pulses : PulseFlashed(p)
  \/ \E p \in pulses : nextId <= MaxPulseItems /\ PulseReturn(p)
  \/ \E li \in DOMAIN loops : SleepDone(li) /\ UNCHANGED outerVars
  \/ \E li \in DOMAIN loops : CommandDone(li) /\ UNCHANGED outerVars
  \/ \E c \in inflight : HubSettle(c, TRUE) /\ UNCHANGED outerVars
  \/ Elapse(PulseTickMs)

PulseSpec == Init /\ [][PulseNext]_vars

\* The connection to the hub: the service is constructed with or without a
\* token, the hub answers or fails, the health check fires at any time, and
\* the button authentication may be asked for at any time.
ConnectionNext ==
  \/ \E accessToken \in ConfigTokens, file \in StoredTokens : Construct(accessToken, file)
  \/ \E c \in connects, ok \in BOOLEAN : ClientCreated(c, ok)
  \/ \E c \in connects, ok \in BOOLEAN, listed \in ConnectionListings :
       Discovered(c, ok, listed)
  \/ \E h \in healthTimers : Cardinality(connects) < MaxConnects /\ ProbeFire(h)
  \/ \E c \in connects, ok \in BOOLEAN : ProbeAnswered(c, ok)
  \/ Cardinality(connects) < MaxConnects /\ Authenticate
  \/ \E c \in connects, ok \in BOOLEAN : Authenticated(c, ok)

ConnectionSpec == Init /\ [][ConnectionNext]_vars

\* No client has MaxMessages broadcasts waiting.
ChannelsOpen == \A c \in DOMAIN channel : Len(channel[c]) < MaxMessages

(* ------------------- SceneEngine: the spatial scenes -------------------- *)

\* The fixtures of a spatial scene. "lamp1" and "lobby1" begin and end with
\* the same characters.
SpatialFixtures == {"lamp1", "lamp2", "lobby1"}

\* device.id.charCodeAt(0) and device.id.charCodeAt(device.id.length - 1):
\* 'l' is 108, '1' is 49 and '2' is 50.
FirstCharCode(id) == 108
LastCharCode(id) == IF id \in {"lamp1", "lobby1"} THEN 49 ELSE 50

\* The stand-in position of a fixture that the layout does not hold.
PseudoPosition(id) == [x |-> FirstCharCode(id) % 100, y |-> LastCharCode(id) % 100]

\* layout.lights.find(l => l.id === device.id) || { x: ..., y: ... }
PositionOf(layout, id) ==
  IF id \in DOMAIN layout THEN layout[id] ELSE PseudoPosition(id)

\* The positions a layout gives, in percent of the room.
Positions == {[x |-> 8, y |-> 49], [x |-> 80, y |-> 90]}

\* The layouts: "lamp1" is placed or not, the others never are.
Layouts == UNION {[placed -> Positions] : placed \in SUBSET {"lamp1"}}

\* The elapsed times of the ticks, in seconds.
ElapsedTimes == {0, 1, 3}

\* The spatial parameters: the speed is in hundredths of a palette step per
\* second, the angle in degrees.
SpatialModes ==
  {[mode |-> "linear", scale |-> 2, speed |-> 50, angle |-> 0],
   [mode |-> "linear", scale |-> 2, speed |-> 50, angle |-> 30],
   [mode |-> "radial", scale |-> 2, speed |-> 50, angle |-> 0],
   [mode |-> "random", scale |-> 2, speed |-> 50, angle |-> 0]}

\* The first colors of the palette of arctic-aurora.
SpatialPalette ==
  << [hue |-> 180, saturation |-> 80], [hue |-> 200, saturation |-> 90],
     [hue |-> 260, saturation |-> 70] >>

\* Math.sin, in thousandths.
Sin(angle) == Cos((angle + 270) % 360)

\* Math.sqrt, to the whole number below.
Sqrt(n) == CHOOSE r \in 0..100 : r * r <= n /\ (r + 1) * (r + 1) > n

\* A mode switch of which every case picks a random palette color.
Patterned_Never(mode) == FALSE

\* The cases of the mode switch that compute a phase.
Patterned(mode) == mode \in {"linear", "radial"}

\* The phase of a position, in hundredths.
Phase(x, y, spatial) ==
  IF spatial.mode = "linear"
  THEN (x * Cos(spatial.angle) + y * Sin(spatial.angle)) \div 1000
  ELSE Sqrt((x - 50) * (x - 50) + (y - 50) * (y - 50))

\* getSpatialColor; random is the palette index Math.random leads to when
\* getRandomColorFromPalette is called. The fraction is cut to tenths.
GetSpatialColor(x, y, time, scene, random) ==
  IF ~Patterned(scene.spatial.mode) THEN scene.palette[random]
  ELSE LET len == Len(scene.palette)
           patternValue == Phase(x, y, scene.spatial) * scene.spatial.scale
                           - time * scene.spatial.speed
           normalizedIndex == patternValue % (len * 100)
           index1 == normalizedIndex \div 100
           index2 == (index1 + 1) % len
           fraction == (normalizedIndex % 100) \div 10
       IN InterpolateColors(scene.palette[index1 + 1], scene.palette[index2 + 1],
                            fraction)

\* One tick of spatialLoop computes the colors of the eligible fixtures.
SpatialColors(layout, time, scene, randoms) ==
  LET position == [id \in SpatialFixtures |-> PositionOf(layout, id)]
  IN /\ lastSpatial' =
          Some([layout |-> layout, time |-> time, scene |-> scene,
                position |-> position,
                color |-> [id \in SpatialFixtures |->
                             GetSpatialColor(position[id].x, position[id].y, time,
                                             scene, randoms[id])],
                before |-> IF lastSpatial = None THEN None
                           ELSE Some([layout |-> Val(lastSpatial).layout,
                                      position |-> Val(lastSpatial).position])])
     /\ UNCHANGED lastInterpolation
     /\ ColorStep

\* The client under messages: it is never disconnected by its owner.
OutboxNext ==
  \/ NewClient
  \/ SocketOpens
  \/ \E code \in CloseCodes : SocketClosing(code)
  \/ SocketClosed
  \/ ReconnectTimerFires
  \/ nextMessage <= MaxSends /\ Send
  \/ nextMessage <= MaxSends /\ Heartbeat

OutboxSpec == Init /\ [][OutboxNext]_vars

\* The client under closes of its socket and disconnects.
ReconnectNext ==
  \/ NewClient
  \/ SocketOpens
  \/ \E code \in CloseCodes : SocketClosing(code)
  \/ SocketClosed
  \/ ReconnectTimerFires
  \/ nextMessage <= MaxReconnectSends /\ Send
  \/ nextMessage <= MaxReconnectSends /\ Heartbeat
  \/ \E destroy \in BOOLEAN : Disconnect(destroy)

ReconnectSpec == Init /\ [][ReconnectNext]_vars

\* The selection API, and clients that open the application and have the
\* fixtures discovered again.
RediscoveryNext ==
  \/ Initialize(SelectionReports, {Dev}) /\ UNCHANGED outerVars
  \/ \E selectedLights \in SelectionRequests :
       client = "ready" /\ UpdateLightSelection(selectedLights)
  \/ \E c \in Clients, on \in DiscoverListings : DiscoverRequest(c, on)

RediscoverySpec == Init /\ [][RediscoveryNext]_vars

\* The section effects, one at a time, on the queue.
SectionNext ==
  \/ Initialize(QueueReports, {Dev}) /\ UNCHANGED outerVars
  \/ \E type \in SectionTypes :
       /\ client = "ready" /\ nextId <= MaxSectionItems /\ sections = {}
       /\ HandleSongSection(type)
  \/ \E s \in sections : SectionAwaited(s)
  \/ \E s \in sections : nextId <= MaxSectionItems /\ SectionSleepDone(s)
  \/ \E li \in DOMAIN loops : SleepDone(li) /\ UNCHANGED outerVars
  \/ \E li \in DOMAIN loops : CommandDone(li) /\ UNCHANGED outerVars
  \/ \E c \in inflight : HubSettle(c, TRUE) /\ UNCHANGED outerVars
  \/ SectionElapse(Horizon)

SectionSpec == Init /\ [][SectionNext]_vars

\* The ticks of spatial scenes over the layouts.
SpatialNext ==
  \E layout \in Layouts, time \in ElapsedTimes, spatial \in SpatialModes :
    \E randoms \in [SpatialFixtures -> IF Patterned(spatial.mode) THEN {1}
                                       ELSE 1..Len(SpatialPalette)] :
      SpatialColors(layout, time, [palette |-> SpatialPalette, spatial |-> spatial],
                    randoms)

SpatialSpec == Init /\ [][SpatialNext]_vars

\* Calls of interpolateColors on palette colors.
InterpolationNext ==
  \E h1 \in PaletteHues, h2 \in PaletteHues, factor \in Factors :
    Interpolate([hue |-> h1, saturation |-> 90], [hue |-> h2, saturation |-> 40], factor)

InterpolationSpec == Init /\ [][InterpolationNext]_vars

\* The analysis frames of an audio that starts quiet.
DetectorNext ==
  \E currentEnergy \in Energies, ms \in FrameGaps :
    /\ AnalysisFrames < MaxAnalysisFrames
    /\ AnalysisFrames < QuietFrames => currentEnergy = 1
    /\ Detect(currentEnergy, ms)

DetectorSpec == Init /\ [][DetectorNext]_vars

\* The test endpoints: a test is started when none runs, and stopped.
TestNext ==
  \/ Initialize(QueueReports, {Dev}) /\ UNCHANGED outerVars
  \/ \E testType \in TestRuns :
       /\ client = "ready" /\ nextId <= MaxTestItems /\ tests = {}
       /\ PostLightsTest(testType)
  \/ client = "ready" /\ nextId <= MaxTestItems /\ PostLightsTestStop
  \/ \E t \in tests : RainbowAwaited(t)
  \/ \E t \in tests : nextId <= MaxTestItems /\ RainbowSleepDone(t)
  \/ \E t \in tests : TestAwaited(t)
  \/ \E t \in tests : nextId <= MaxTestItems /\ TestSleepDone(t)
  \/ \E p \in pulses : PulseFlashed(p)
  \/ \E p \in pulses : nextId <= MaxTestItems /\ PulseReturn(p)
  \/ \E li \in DOMAIN loops : SleepDone(li) /\ UNCHANGED outerVars
  \/ \E li \in DOMAIN loops : CommandDone(li) /\ UNCHANGED outerVars
  \/ \E c \in inflight : HubSettle(c, TRUE) /\ UNCHANGED outerVars
  \/ Elapse(Horizon)

TestSpec == Init /\ [][TestNext]_vars

\* Clients that open the application while the registry changes through the
\* service calls and the pushes of the hub.  The steps of the command queue,
\* which write neither the registry nor a channel, are those of RegistrySpec
\* and are not repeated here.
ObserverNext ==
  \/ Initialize({ConnectionReport}, {Dev}) /\ UNCHANGED outerVars
  \/ \E c \in Clients, on \in DiscoverListings : DiscoverRequest(c, on)
  \/ \E u \in LightUpdates :
       /\ nextId <= MaxUpdates /\ ChannelsOpen
       /\ UpdateLights(u)
       /\ Broadcast("DEVICES_UPDATE", UpdatedDevices(devices, u))
  \/ \E us \in BatchUpdates :
       /\ nextId <= MaxUpdates /\ ChannelsOpen
       /\ UpdateLightsBatch(us)
       /\ Broadcast("DEVICES_UPDATE", ChangeNotification(BatchWritten(devices, us)))
  \/ \E u \in RegistrySingleUpdates :
       /\ nextId <= MaxUpdates /\ ChannelsOpen
       /\ UpdateSingleLight(u)
       /\ Broadcast("DEVICE_UPDATE",
                    IF SingleAttrs(devices[u.deviceId], u) = {} THEN {} ELSE {u.deviceId})
  \/ \E d \in Dev, isOn \in BOOLEAN :
       /\ ChannelsOpen
       /\ HandleDeviceUpdate(d, isOn)
       /\ Broadcast("DEVICE_UPDATE", {d})
  \/ \E c \in Clients : Deliver(c)

ObserverSpec == Init /\ [][ObserverNext]_vars

\* A spatial scene over 1..MaxFixtures eligible fixtures and the queue it
\* feeds.
LoadNext ==
  \/ \E fixtures \in 1..MaxFixtures : StartSpatialScene(fixtures)
  \/ SpatialLoop
  \/ ProcessOne
  \/ LoadElapse

LoadSpec == Init /\ [][LoadNext]_vars

\* Settings updates through the REST endpoint and the real-time channel.
SettingsNext ==
  \/ \E settings \in SettingsUpdates : UpdateSyncSettings(settings)
  \/ \E settings \in SettingsUpdates : SettingsUpdateMessage(settings)

SettingsSpec == Init /\ [][SettingsNext]_vars

\* The selection API on a connected service, with the hub pushing power
\* changes.
SelectionNext ==
  \/ Initialize(SelectionReports, {Dev}) /\ UNCHANGED outerVars
  \/ \E selectedLights \in SelectionRequests :
       client = "ready" /\ UpdateLightSelection(selectedLights)
  \/ \E d \in Dev, isOn \in BOOLEAN : HandleDeviceUpdate(d, isOn) /\ UNCHANGED outerVars

SelectionSpec == Init /\ [][SelectionNext]_vars

\* Frequency frames from the WebSocket clients, whose async message handlers
\* run as the frames arrive.
FrameNext ==
  \/ Initialize(FrameReports, {Dev}) /\ UNCHANGED outerVars
  \/ \E data \in FrequencyFrames, timeComponent \in TimeComponents :
       /\ client = "ready"
       /\ (sinceLastLightUpdate < lightUpdateInterval \/ Cardinality(frames) < MaxFrames)
       /\ HandleFrequencyUpdate(data, timeComponent)
  \/ \E f \in frames, listing \in Listings : FrameRefreshed(f, listing)
  \/ \E f \in frames : FrameAwaited(f)
  \/ \E li \in DOMAIN loops : SleepDone(li) /\ UNCHANGED outerVars
  \/ \E li \in DOMAIN loops : CommandDone(li) /\ UNCHANGED outerVars
  \/ \E c \in inflight : HubSettle(c, TRUE) /\ UNCHANGED outerVars
  \/ Elapse(FrameTickMs)

FrameSpec == Init /\ [][FrameNext]_vars

(* ------------------------------- claims --------------------------------- *)

Range(f) == { f[x] : x \in DOMAIN f }

CeilDiv(a, b) == (a + b - 1) \div b

\* The lengths W of the rolling windows (now - W, now] the model can see.
Windows == 1..Horizon

\* Queue items that began executing within the last W ms.
ItemsWithin(W) == Cardinality({ n \in DOMAIN dispatches : dispatches[n].age < W })

RECURSIVE SumCalls(_, _)
SumCalls(ds, W) ==
  IF ds = << >> THEN 0
  ELSE (IF Head(ds).age < W THEN Head(ds).calls ELSE 0) + SumCalls(Tail(ds), W)

\* Hub calls dispatched within the last W ms.
HubCallsWithin(W) == SumCalls(dispatches, W)

\* C1: any two queue items begin executing at least minInterval ms apart.
C1_StartsMinIntervalApart ==
  \A i, j \in DOMAIN dispatches :
    i < j => dispatches[i].age - dispatches[j].age >= minInterval

\* Two queue items have begun executing exactly minInterval apart.
C1_Witness ==
  /\ Len(started) >= 2
  /\ \E i, j \in DOMAIN dispatches :
       i < j /\ dispatches[i].age - dispatches[j].age = minInterval

C3_Serialized ==
  /\ Len(loops) <= 1
  /\ Cardinality({ li \in DOMAIN loops : loops[li].pc = "await" }) <= 1
  /\ processing <=> (Len(loops) = 1)

\* add() has been called twice while the drain loop was executing an item.
C3_Witness ==
  /\ Len(loops) = 1
  /\ loops[1].pc = "await"
  /\ Len(queue) = 2

\* C4: queue items begin executing in the order they were enqueued (ids
\* count the enqueue order), whichever service call enqueued them.
C4_Fifo ==
  /\ \A k \in DOMAIN started : started[k] = k
  /\ \A k \in DOMAIN queue : queue[k].id = Len(started) + k

\* Three items of three producers were waiting or executing together and
\* the last of them has begun executing.
C4_Witness ==
  /\ started = << 1, 2, 3 >>
  /\ \E e \in lastExec : e.item.id = 3 /\ e.item.kind = "updateSingleLight"
  /\ settled[3] = "pending"

\* C5: every enqueued item is eventually executed and the promise add()
\* returned for it settled, also behind an item whose hub calls fail,
\* provided every hub call terminates (the fairness of LiveSpec).
C5_EveryItemSettles ==
  \A i \in 1..MaxAdds : (settled[i] = "pending") ~> (settled[i] = "resolved")

\* An item enqueued behind an item with a rejected hub call has settled.
C5_Witness ==
  \E i \in failed, j \in 1..MaxAdds :
    /\ i < j
    /\ settled[i] = "resolved"
    /\ settled[j] = "resolved"

\* C6: a hub call that never completes cannot stall the queue: every
\* enqueued item eventually begins executing, whatever the hub does.
C6_NoStall ==
  \A i \in 1..MaxAdds : (settled[i] = "pending") ~> (i \in Range(started))

\* The hub calls of the executing item `e` that go to fixture `d`.
CallsTo(e, d) == SelectSeq(e.calls, LAMBDA c : c.id = d)

\* The registry attribute a hub call sets.
AttrOf(call) ==
  CASE call = "setIsOn" -> "isOn"
    [] call = "setLightColor" -> "color"
    [] call = "setLightLevel" -> "brightness"

\* C7: whatever update a queue item carries, a fixture whose canChangeColor
\* is false receives no setLightColor call from it, and a fixture whose
\* canChangeBrightness is false no setLightLevel call.
C7_CapabilityGating ==
  \A e \in lastExec : \A n \in DOMAIN e.calls :
    LET c == e.calls[n]
        capabilities == e.seen[c.id].capabilities
    IN /\ c.call = "setLightColor" => capabilities.canChangeColor
       /\ c.call = "setLightLevel" => capabilities.canChangeBrightness

\* updateSingleLight with a color has executed for a powered-on fixture
\* that cannot change color, and the fixture got its brightness call.
C7_Witness ==
  \E e \in lastExec :
    /\ e.item.kind = "updateSingleLight"
    /\ Defined(e.item.updates[1].color)
    /\ e.item.updates[1].deviceId = "d1"
    /\ ~e.seen["d1"].capabilities.canChangeColor
    /\ Len(e.calls) = 1
    /\ e.calls[1].call = "setLightLevel"

\* C8: when an updateLights item without on:true executes, a fixture that is
\* off in the registry receives no hub call, and for an update with color
\* and brightness a participating, powered-on, brightness-only fixture
\* receives exactly one setLightLevel call and nothing else.
C8_OffFixturesSkipped ==
  \A e \in lastExec :
    (e.item.kind = "updateLights" /\ e.item.updates[1].isOn # Some(TRUE)) =>
      \A d \in Dev :
        /\ ~e.seen[d].currentState.isOn => CallsTo(e, d) = << >>
        /\ ( /\ Defined(e.item.updates[1].color)
             /\ Defined(e.item.updates[1].brightness)
             /\ e.seen[d].currentState.isOn
             /\ e.seen[d].isSelected
             /\ e.seen[d].capabilities = BrightnessOnly )
           => /\ Len(CallsTo(e, d)) = 1
              /\ CallsTo(e, d)[1].call = "setLightLevel"

\* updateLights({color, brightness}) has executed on a registry with the
\* brightness-only fixture on and the fully capable fixture off.
C8_Witness ==
  \E e \in lastExec :
    /\ e.item.kind = "updateLights"
    /\ e.item.updates[1] = LightUpdate(None, Some(Red), Some(80))
    /\ e.seen["d1"].capabilities = BrightnessOnly
    /\ e.seen["d1"].currentState.isOn /\ e.seen["d1"].isSelected
    /\ e.seen["d2"].capabilities = FullyCapable
    /\ ~e.seen["d2"].currentState.isOn /\ e.seen["d2"].isSelected
    /\ e.calls = << HubCall("setLightLevel", "d1", None, None, Some(80)) >>

\* Whether fixture `d` was among those the service call of `item` applied
\* to when it was made: participating, and on or being turned on.
AppliedAtCall(item, d) ==
  /\ d \in item.selectedAtCall
  /\ (d \in item.onAtCall \/ item.updates[1].isOn = Some(TRUE))

InvalidParameters(command) ==
  \/ /\ Defined(command.color)
     /\ \/ Val(command.color).hue < 0 \/ Val(command.color).hue >= 360
        \/ Val(command.color).saturation < 0 \/ Val(command.color).saturation > 100
  \/ /\ Defined(command.brightness)
     /\ (Val(command.brightness) < 1 \/ Val(command.brightness) > 100)

\* C11: a request with invalid parameters to the update endpoint, or to the
\* command endpoint with SET_COLOR, SET_BRIGHTNESS or PULSE, is rejected at
\* the boundary: it is answered with an error, enqueues no queue item and
\* changes no fixture state.
C11_InvalidRejected ==
  \A r \in request :
    ( /\ \/ r.api = "updateLights"
         \/ /\ r.api = "executeCommand"
            /\ r.command.type \in {"SET_COLOR", "SET_BRIGHTNESS", "PULSE"}
      /\ InvalidParameters(r.command) )
    => (r.rejected /\ r.enqueued = 0 /\ ~r.changed)

\* The requests of manual control.
ManualApis == {"updateLights", "executeCommand", "testLights", "stopTest"}

\* C15: once a manual update, command, test or stop-test request has been
\* handled no scene is running (no current scene, no tick interval), and no
\* scene tick runs between such a request and the next request.
C15_ManualOverridesScene ==
  /\ \A r \in request :
       r.api \in ManualApis =>
         /\ ~isRunning /\ currentScene = None
         /\ activeInterval = None /\ timers = {}
  /\ \A k \in lastTick : \A r \in k.after : r.api \notin ManualApis

\* A manual request arrived while a scene was running and had ticked, and
\* it enqueued an actuation.
C15_Witness ==
  \E r \in request :
    /\ r.api \in ManualApis
    /\ Defined(r.running)
    /\ r.enqueued > 0
    /\ \E k \in lastTick : Some(k.current) = r.running

\* C16: any two PULSE commands of handleBeatDetection are at least
\* beatUpdateInterval (800 ms) apart, however the handlers interleave.
C16_BeatPulsesRateLimited ==
  \A p \in pulses : p.caller = "beat" => p.gap >= beatUpdateInterval

\* The length of the shorter arc between the hues a and b.
ArcLength(a, b) == Min((a - b) % 360, (b - a) % 360)

\* C31: the interpolated hue is in [0, 360) and lies on the shorter arc
\* between the two hues, at the factor's share of it; 350 and 10 at factor
\* 0.5 give 0.
C31_ShorterArc ==
  \A k \in lastInterpolation :
    LET arc == ArcLength(k.c1.hue, k.c2.hue)
    IN /\ k.color.hue >= 0 /\ k.color.hue < 360
       /\ ArcLength(k.c1.hue, k.color.hue) + ArcLength(k.color.hue, k.c2.hue) = arc
       /\ 10 * ArcLength(k.c1.hue, k.color.hue) = arc * k.factor
       /\ (k.c1.hue = 350 /\ k.c2.hue = 10 /\ k.factor = 5) => k.color.hue = 0

\* 350 and 10 were interpolated at factor 0.5.
C31_Witness ==
  \E k \in lastInterpolation : k.c1.hue = 350 /\ k.c2.hue = 10 /\ k.factor = 5

\* C32: in a tick of a linear or radial spatial scene fixtures at the same
\* position get the same color, and a fixture that the layout does not hold
\* is at the position its identifier gives, the one it had the tick before.
C32_SpatialDeterminism ==
  \A k \in lastSpatial :
    /\ k.scene.spatial.mode \in {"linear", "radial"} =>
         \A f \in SpatialFixtures, g \in SpatialFixtures :
           k.position[f] = k.position[g] => k.color[f] = k.color[g]
    /\ \A f \in SpatialFixtures \ DOMAIN k.layout :
         /\ k.position[f] = PseudoPosition(f)
         /\ \A b \in k.before :
              f \notin DOMAIN b.layout => b.position[f] = k.position[f]

\* A later tick of a radial scene found "lobby1" unplaced, as the tick before
\* had under another layout, and "lamp1" at the same position as "lobby1".
C32_Witness ==
  \E k \in lastSpatial :
    /\ k.scene.spatial.mode = "radial" /\ k.time > 0
    /\ k.position["lamp1"] = k.position["lobby1"]
    /\ "lamp1" \in DOMAIN k.layout
    /\ \E b \in k.before : b.layout # k.layout /\ "lobby1" \notin DOMAIN b.layout

\* C33: every setLightColor call that is sent to the hub carries a hue in
\* 0..359 and a saturation between 0 and 1 (100 percent).
C33_ColorsInRange ==
  \A c \in inflight : \A color \in c.call.color :
    /\ color.hue \in 0..359
    /\ color.saturation \in 0..100

\* C34: the brightness the registry holds for a fixture is within 1..100.
C34_BrightnessInRange ==
  \A d \in DOMAIN devices : devices[d].currentState.brightness \in 1..100

\* C35: an operation of the actuation layer neither changes the recorded
\* state of, nor sends a hub call to, a fixture that is not participating
\* when the operation is called.
C35_OnlyParticipating ==
  /\ \A i \in 1..Len(queue) :
       \A w \in queue[i].optimistic : w[1] \in queue[i].selectedAtCall
  /\ \A e \in lastExec :
       \A n \in 1..Len(e.calls) : e.calls[n].id \in e.item.selectedAtCall

\* C36: the hub calls of a command that a tick of a scene enqueued (the
\* updateSingleLight commands of SceneSpec) are dispatched only while the
\* engine is running; once stop() has returned none of them is.
C36_StoppedSceneSilent ==
  [][\A e \in lastExec' :
       (e \notin lastExec /\ e.item.kind = "updateSingleLight" /\ e.calls # << >>)
         => isRunning]_vars

\* C37: a request that the update, command or test endpoint rejects
\* enqueues nothing, changes no fixture state, and leaves the scene that
\* was running when it arrived running.
C37_RejectedChangesNothing ==
  \A r \in request :
    (r.rejected /\ r.api \in {"updateLights", "executeCommand", "testLights"}) =>
      /\ r.enqueued = 0
      /\ ~r.changed
      /\ Defined(r.running) => (isRunning /\ currentScene = r.running)

\* C38: a run of discoverDevices on behalf of a client that loads the
\* fixtures leaves the participation of every fixture that is in the
\* registry as it was.
C38_DiscoveryKeepsParticipation ==
  [][DOMAIN stores' # DOMAIN stores =>
       \A d \in DOMAIN devices : devices'[d].isSelected = devices[d].isSelected]_vars

\* C39: the message queue of the client never holds more than 100
\* messages; a message sent while the socket is not open is appended to the
\* queue, after the oldest was dropped if the queue was full; and an open
\* writes the queued messages to the socket in the order of the queue and
\* leaves the queue empty.
C39_QueueBounded ==
  /\ Len(messageQueue) <= 100
  /\ \A k \in lastStep :
       /\ (k.op = "send" /\ ~k.open) =>
            /\ k.wire = << >>
            /\ messageQueue = Append(IF Len(k.queued) < 100 THEN k.queued
                                     ELSE Tail(k.queued), k.message)
       /\ k.op = "open" => (k.wire = k.queued /\ messageQueue = << >>)

\* An open has sent a full queue of which the oldest messages had been
\* dropped.
C39_Witness ==
  \E k \in lastStep :
    k.op = "open" /\ Len(k.queued) = 100 /\ Head(k.queued) > 1

\* The delay of the n-th reconnect attempt in a row.
ClaimedDelay(n) ==
  CASE n = 1 -> 1000 [] n = 2 -> 2000 [] n = 3 -> 4000 [] n = 4 -> 8000
    [] n = 5 -> 16000 [] OTHER -> 30000

\* C40: at most 5 reconnect attempts are scheduled in a row, the n-th with
\* a delay of min(1000 * 2^(n-1), 30000) ms; an open resets the attempt
\* counter to 0; and after disconnect() no reconnect timer is pending.
C40_ReconnectBounded ==
  /\ scheduledSinceOpen <= 5
  /\ \A t \in reconnectTimer :
       /\ scheduledSinceOpen >= 1
       /\ t.delay = ClaimedDelay(scheduledSinceOpen)
  /\ \A k \in lastStep : k.op = "open" => reconnectAttempts = 0
  /\ disconnectCalled => reconnectTimer = None

\* The fifth attempt in a row has failed, and the client has given up.
C40_Witness ==
  /\ scheduledSinceOpen = 5
  /\ readyState = "CLOSED"
  /\ ~disconnectCalled
  /\ \A t \in reconnectTimer : ~t.pending

\* C30: a beat is emitted only more than minBeatInterval (100 ms) after the
\* beat before it, so that of two spikes closer together than that at most
\* one yields a beat, and only once the energy history holds 43 samples.
C30_BeatRefractory ==
  \A k \in lastDetect :
    /\ k.beat => k.gap > minBeatInterval
    /\ k.beat => k.samples = beatHistorySize /\ ~(k.frame < beatHistorySize)
    /\ (k.spike /\ ~(k.gap > minBeatInterval)) => ~k.beat

\* A second beat, 110 ms after the first.
C30_Witness ==
  \E k \in lastDetect : k.beat /\ k.beats = 2 /\ k.gap = 110

\* C29: once the stop-test request has been handled, and until another
\* request is, no command is issued: the neutral reset of the stop request
\* stays the last item of the command queue.
C29_StopCancelsTest ==
  [][ ((\E k \in request : k.api = "stopTest")
       /\ request' = request /\ ~PostLightsTestStop)
        => nextId' = nextId ]_vars

\* C28: once a client has received every broadcast sent to it, its copy of
\* the state of every fixture equals the registry's.
C28_ObserversConsistent ==
  \A c \in DOMAIN stores :
    channel[c] = << >> => stores[c] = StateOf(devices)

\* C27: under a running spatial scene the backlog of the command queue stays
\* bounded for any number of eligible fixtures: the backlog a tick finds is
\* no longer than the backlog the tick before it found.
C27_BacklogBounded ==
  \A l \in load : l.found <= l.foundBefore

\* The numbers of the settings are in [0, 1] (percent here) and the color
\* mode is one the engine knows.
ValidSettings(settings) ==
  /\ settings.sensitivity >= 0 /\ settings.sensitivity <= 100
  /\ settings.effectIntensity >= 0 /\ settings.effectIntensity <= 100
  /\ settings.beatDetectionThreshold >= 0 /\ settings.beatDetectionThreshold <= 100
  /\ settings.colorMode \in {"frequency", "mood", "random"}

\* C24: the settings stay valid under every sequence of settings updates
\* from either channel, and a rejected update leaves them unchanged.
C24_SettingsStayValid ==
  /\ ValidSettings(syncSettings)
  /\ \A k \in lastSettings : k.rejected => syncSettings = k.before

\* isServiceConnected()
IsServiceConnected == isConnected /\ client # "null"

\* C22: a failed liveness probe marks the service disconnected until a
\* re-initialization succeeds, re-initialization is attempted with the token
\* the service has learned last, and no fixture leaves the registry.
C22_ProbeFailureReconnects ==
  \A k \in lastProbe :
    /\ ~k.reconnected => ~IsServiceConnected
    /\ Defined(k.token)
    /\ k.token = k.known
    /\ k.registered \subseteq DOMAIN devices

\* C23: whenever the service is connected exactly one health check interval
\* is active.
C23_OneHealthCheck ==
  IsServiceConnected => Cardinality(healthTimers) = 1

\* The fixtures that participate.
Participating == { d \in DOMAIN devices : devices[d].isSelected }

\* The ids the selection file holds (none when there is no file).
Persisted == IF Defined(selectionFile) THEN Val(selectionFile) ELSE {}

\* C21: after the selection request a registered fixture participates if
\* and only if its id was in the request, the persisted selection is the set
\* of participating fixture ids, and the registry holds the fixtures it held.
C21_SelectionApplied ==
  \A k \in lastSelection :
    /\ \A d \in DOMAIN devices : devices[d].isSelected <=> d \in k.selectedLights
    /\ Persisted = Participating
    /\ DOMAIN devices = k.registered

\* The queue items the runs `fs` of createLightPattern have enqueued.
RECURSIVE Sent(_)
Sent(fs) ==
  IF fs = {} THEN 0
  ELSE LET f == CHOOSE g \in fs : TRUE IN f.sent + Sent(fs \ {f})

\* C17: the frames that lead to actuation commands are at least
\* lightUpdateInterval (3000 ms) apart and every actuation command comes from
\* one of them; a frame that arrives less than 3000 ms after the last
\* accepted one is not accepted, starts no pattern run, and its color is
\* appended to the smoothing history.
C17_FramesRateLimited ==
  /\ \A f \in frames : f.gap >= lightUpdateInterval
  /\ nextId - 1 = Sent(frames)
  /\ \A k \in lastFrame :
       k.gap < lightUpdateInterval =>
         /\ ~k.accepted
         /\ Cardinality(frames) = k.runs
         /\ colorHistory =
              IF Len(k.before) < historySize THEN k.before \o << k.color >>
              ELSE SubSeq(k.before, 2, historySize) \o << k.color >>

\* Two frames were accepted and the first has sent its commands; the frame
\* handled last came within 3000 ms of the second and found the history full.
C17_Witness ==
  /\ \E f \in frames : f.pc = "done" /\ f.sent = 2
  /\ Cardinality(frames) = 2
  /\ \E k \in lastFrame :
       k.gap < lightUpdateInterval /\ ~k.accepted /\ Len(k.before) = historySize

\* C25: a pattern command goes only to a fixture that is participating,
\* powered on and color-capable when the command is issued.
C25_PatternOnlyEligible ==
  \A i \in 1..Len(queue) :
    queue[i].kind = "updateSingleLight" =>
      LET d == queue[i].updates[1].deviceId
      IN /\ d \in queue[i].selectedAtCall
         /\ d \in queue[i].onAtCall
         /\ devices[d].capabilities.canChangeColor

\* The color of an update is the smoothed color.
IsSmoothed(color, smoothed) ==
  /\ Defined(color)
  /\ Val(color).hue = smoothed.hue
  /\ Val(color).saturation * smoothed.den = smoothed.num

\* C26: the commands issued for an accepted frame carry the smoothed color
\* of the history the frame was pushed onto.
C26_CommandsCarrySmoothedColor ==
  \A k \in lastFrame, f \in frames, i \in 1..Len(queue) :
    (k.accepted /\ f.n = k.runs + 1 /\ queue[i].id = f.item) =>
      IsSmoothed(queue[i].updates[1].color,
                 SmoothedColor(SmoothColor(k.before, k.color)))

\* The fixtures a pulse changes the brightness of.
Affected(p) ==
  { d \in DOMAIN devices :
      "brightness" \in UpdateLightsAttrs(devices[d],
                                         LightUpdate(None, None, Some(p.originalBrightness))) }

\* The pulse and its scheduled return have executed.
Returned(p) == p.pc = "returned" /\ Awaited(p.item) /\ Awaited(p.back)

\* C18: after a PULSE with returnToPrevious and its scheduled return have
\* executed, with no other command in between, every affected fixture has
\* the brightness it had immediately before the pulse.
C18_PulseReturnsToPrevious ==
  \A p \in pulses :
    (pulses = {p} /\ p.returnToPrevious /\ Returned(p))
    => \A d \in Affected(p) : devices[d].currentState.brightness = p.previous[d]

\* C19: when pulses with returnToPrevious have overlapped and all scheduled
\* returns have executed, the fixtures, which were at one level, have the
\* brightness they had before the first pulse.
C19_OverlappingPulsesReturn ==
  \A f \in pulses :
    ( /\ f.first
      /\ \A d, e \in DOMAIN f.previous : f.previous[d] = f.previous[e]
      /\ \E p \in pulses : p.overlaps
      /\ \A p \in pulses : p.returnToPrevious /\ Returned(p) )
    => \A d \in Affected(f) : devices[d].currentState.brightness = f.previous[d]

\* C12: scene exclusivity: at most one tick interval exists, it belongs to
\* the one active scene, and every tick that fires was set up for the scene
\* that is active when it fires, so that after startScene(B) while A runs
\* the active scene is B and no tick of A's interval fires any more.
C12_SceneExclusivity ==
  /\ Cardinality(timers) <= 1
  /\ \A t \in timers :
       isRunning /\ currentScene = Some(t.scene) /\ activeInterval = Some(t.handle)
  /\ \A k \in lastTick : k.scene = k.current

\* startScene(B) arrived while another scene A was running, and B's interval
\* has ticked since.
C12_Witness ==
  \E r \in request, k \in lastTick :
    /\ r.api = "startScene" /\ ~r.rejected
    /\ Defined(r.running) /\ r.running # Some(r.id)
    /\ k.after = Some(r) /\ k.current = r.id
    /\ currentScene = Some(r.id)

\* C13: once stop() has returned the engine is idle (no current scene, not
\* running, no tick interval), and no drift or spatial tick is produced
\* between a stop and the next startScene.
C13_StopIsSynchronous ==
  /\ \A r \in request :
       r.api = "stopScene" =>
         /\ currentScene = None /\ ~isRunning
         /\ activeInterval = None /\ timers = {}
  /\ \A k \in lastTick : \A r \in k.after : r.api # "stopScene"

\* A scene that was running and had ticked has been stopped.
C13_Witness ==
  \E r \in request :
    /\ r.api = "stopScene" /\ Defined(r.running)
    /\ \E k \in lastTick : Some(k.current) = r.running

\* C14: after updateScene on the scene that is running the engine is still
\* running that scene with exactly one tick interval, which drives the loop
\* startScene selects for the scene (spatialLoop for a scene with spatial
\* parameters, driftLoop otherwise) at the interval startScene derives, and
\* the ticks that follow use the updated brightness.
C14_UpdateKeepsLoop ==
  \A r \in request :
    (r.api = "updateScene" /\ ~r.rejected /\ r.running = Some(r.id)) =>
      /\ isRunning /\ currentScene = Some(r.id)
      /\ Cardinality(timers) = 1
      /\ \A t \in timers :
           /\ t.callback = LoopOf(scenes[r.id])
           /\ t.intervalTime = IntervalTime(scenes[r.id])
      /\ \A k \in lastTick :
           k.after = Some(r) => k.brightness = scenes[r.id].brightness

\* C20: on a first-ever run (loadSelection found no persisted selection, the
\* selected set is empty) discoverDevices marks every discovered fixture as
\* participating.
C20_FirstRunAllParticipate ==
  (client = "ready" /\ loadedSelection = {}) =>
    \A d \in DOMAIN devices : devices[d].isSelected

\* C10: every attribute updateLights writes optimistically for a fixture is
\* sent to the hub for that fixture when the queue item executes.
C10_WriteThrough ==
  \A e \in lastExec :
    e.item.kind = "updateLights" =>
      \A w \in e.item.optimistic :
        \E n \in DOMAIN e.calls :
          e.calls[n].id = w[1] /\ AttrOf(e.calls[n].call) = w[2]

====
